---- MODULE Spec2Model ----
(***************************************************************************)
(* Durable flight-watch server (research_2b_files.py): the watch lifecycle *)
(* engine.  Strings are sequences of one-character strings, so that the    *)
(* slug, the file-name allocator and the URI codec are computed character  *)
(* by character as the code computes them.  The store directory is a       *)
(* function from file names to the JSON payload each file holds.           *)
(***************************************************************************)
EXTENDS Integers, Sequences, FiniteSets, TLC

VARIABLES
    store,      \* STORE_DIR: file name -> payload of that record file
    minted,     \* number of watch ids minted so far by uuid.uuid4()
    tasks,      \* watch_id -> the _simulate_price_updates task created for it
    reply,      \* what the last call of the resource surface returned or raised
    issued,     \* the file names the resource links returned so far carry
    research    \* the call of a research server's research_agent_tool

vars == <<store, minted, tasks, reply, issued, research>>

----------------------------------------------------------------------------
(* Bounds of the model *)

\* how many watch ids handle_call_tool may mint
MaxWatches == 2
\* how many ticks the simulators may start appending an entry, all together
MaxTicks == 2
\* characters of the id that the allocator puts in the file name (watch_id[:8],
\* scaled to the model's two-character ids)
IdPrefixLen == 1

----------------------------------------------------------------------------
(* Character strings *)

Digits == <<"0", "1", "2", "3", "4", "5", "6", "7", "8", "9">>

LowerAlnum == {"a", "b", "c", "d", "e", "f", "h", "l", "n", "o", "t", "w", "x"} \cup
              {Digits[i] : i \in 1..10}

\* str.lower() on one character
Lower(c) ==
    CASE c = "A" -> "a"
      [] c = "L" -> "l"
      [] c = "N" -> "n"
      [] c = "X" -> "x"
      [] OTHER -> c

\* s[:n]
Take(s, n) == SubSeq(s, 1, IF n < Len(s) THEN n ELSE Len(s))

\* s[n:]
Drop(s, n) == SubSeq(s, n + 1, Len(s))

\* s.startswith(p)
StartsWith(s, p) == Len(p) <= Len(s) /\ SubSeq(s, 1, Len(p)) = p

\* p occurs in s as a contiguous substring
Contains(s, p) ==
    \E i \in 0..(Len(s) - Len(p)) : SubSeq(s, i + 1, i + Len(p)) = p

\* str(n) for a natural number
RECURSIVE Str(_)
Str(n) ==
    IF n < 10 THEN <<Digits[n + 1]>>
    ELSE Str(n \div 10) \o <<Digits[(n % 10) + 1]>>

\* re.sub(r"[^a-z0-9]+", "-", s.lower()): every maximal run of characters
\* outside a-z0-9 becomes one hyphen
RECURSIVE SubRuns(_, _)
SubRuns(s, inRun) ==
    IF s = <<>> THEN <<>>
    ELSE LET c == Lower(Head(s)) IN
         IF c \in LowerAlnum THEN <<c>> \o SubRuns(Tail(s), FALSE)
         ELSE IF inRun THEN SubRuns(Tail(s), TRUE)
         ELSE <<"-">> \o SubRuns(Tail(s), TRUE)

\* s.strip("-")
RECURSIVE LStrip(_)
LStrip(s) == IF s # <<>> /\ Head(s) = "-" THEN LStrip(Tail(s)) ELSE s

RECURSIVE RStrip(_)
RStrip(s) ==
    IF s # <<>> /\ s[Len(s)] = "-" THEN RStrip(SubSeq(s, 1, Len(s) - 1)) ELSE s

Strip(s) == RStrip(LStrip(s))

\* "-".join(tokens)
RECURSIVE Join(_)
Join(tokens) ==
    IF tokens = <<>> THEN <<>>
    ELSE IF Len(tokens) = 1 THEN tokens[1]
    ELSE tokens[1] \o <<"-">> \o Join(Tail(tokens))

\* the loop of _slugify: empty parts and parts that normalise to nothing are
\* dropped
RECURSIVE SlugTokens(_)
SlugTokens(parts) ==
    IF parts = <<>> THEN <<>>
    ELSE LET token == Strip(SubRuns(Head(parts), FALSE)) IN
         IF token = <<>> THEN SlugTokens(Tail(parts))
         ELSE <<token>> \o SlugTokens(Tail(parts))

Slugify(parts) ==
    LET joined == Join(SlugTokens(parts)) IN
    IF joined = <<>> THEN <<"w", "a", "t", "c", "h">> ELSE joined

----------------------------------------------------------------------------
(* The store directory and the allocator *)

STORE_DIR == <<"/", "d">>

JsonExt == <<".json">>

\* path.exists() for STORE_DIR / name
Exists(st, name) == name \in DOMAIN st

\* Path(name).stem of a record file
Stem(name) ==
    IF name # <<>> /\ name[Len(name)] = ".json"
    THEN SubSeq(name, 1, Len(name) - 1) ELSE name

\* the while loop of _allocate_watch_file, from the suffix it is about to try
AllocNoLoop(st, stem, candidate, suffix) == candidate

RECURSIVE AllocLoop(_, _, _, _)
AllocLoop(st, stem, candidate, suffix) ==
    IF Exists(st, candidate \o JsonExt)
    THEN AllocLoop(st, stem, stem \o <<"-">> \o Str(suffix), suffix + 1)
    ELSE candidate

AllocateWatchFile(st, watch_id, origin, destination, departure_date) ==
    LET base_slug == Slugify(<<origin, destination, departure_date>>)
        first     == base_slug \o <<"-">> \o Take(watch_id, IdPrefixLen)
        candidate == AllocLoop(st, first, first, 1)
    IN  [file_name     |-> candidate \o JsonExt,
         resource_name |-> <<"flight-watch-">> \o candidate]

----------------------------------------------------------------------------
(* What a file of the store holds.  A record file holds a JSON object, a    *)
(* record with valid = TRUE and the record's keys; a key a record lacks has *)
(* the empty value <<>>.                                                    *)

\* text json.loads rejects (JSONDecodeError): empty, truncated, not JSON
Unparsable == [valid |-> FALSE]

\* text json.loads accepts but that is no object, "[]" say: it has no .get
NotADict == [valid |-> TRUE]

\* json.loads succeeds and yields a dict
IsDict(content) == content.valid /\ DOMAIN content # {"valid"}

----------------------------------------------------------------------------
(* The URI codec *)

\* str.replace('\\', '/')
ReplaceBackslash(s) == [i \in 1..Len(s) |-> IF s[i] = "\\" THEN "/" ELSE s[i]]

\* STORE_DIR / name
StorePath(name) == STORE_DIR \o <<"/">> \o name

ResourceUri(file_path) ==
    LET path_str == ReplaceBackslash(file_path) IN
    <<"file://">> \o
        (IF StartsWith(path_str, <<"/">>) THEN path_str ELSE <<"/">> \o path_str)

\* least index of s holding a character of cs, Len(s) + 1 when there is none
RECURSIVE FindAny(_, _, _)
FindAny(s, cs, from) ==
    IF from > Len(s) THEN Len(s) + 1
    ELSE IF s[from] \in cs THEN from
    ELSE FindAny(s, cs, from + 1)

\* s.rfind(c): greatest index holding c, 0 when there is none
RECURSIVE RFind(_, _, _)
RFind(s, c, from) ==
    IF from = 0 THEN 0
    ELSE IF s[from] = c THEN from
    ELSE RFind(s, c, from - 1)

\* urllib.parse.urlparse(uri): the scheme and the path component.  A URI
\* string opens with its scheme and "//" as one element, or has no scheme.
UrlScheme(uri) ==
    IF uri = <<>> THEN ""
    ELSE CASE Head(uri) = "file://" -> "file"
           [] Head(uri) = "http://" -> "http"
           [] OTHER -> ""

\* s up to, not including, its first character of cs
Before(s, cs) == Take(s, FindAny(s, cs, 1) - 1)

\* s from its first character of cs on
From(s, cs) == Drop(s, FindAny(s, cs, 1) - 1)

\* what follows the scheme and the authority: the authority follows "//"
\* and ends at the next "/", "?" or "#"
AfterAuthority(uri) ==
    IF UrlScheme(uri) # "" THEN From(Tail(uri), {"/", "?", "#"})
    ELSE IF StartsWith(uri, <<"/", "/">>)
         THEN From(Drop(uri, 2), {"/", "?", "#"})
         ELSE uri

\* ";params" are split off the last segment of the path
StripParams(path) ==
    Take(path, FindAny(path, {";"}, RFind(path, "/", Len(path)) + 1) - 1)

\* the path without fragment and query; the params go but for file URIs
UrlPath(uri) ==
    IF UrlScheme(uri) = "file"
    THEN Before(Before(AfterAuthority(uri), {"#"}), {"?"})
    ELSE StripParams(Before(Before(AfterAuthority(uri), {"#"}), {"?"}))

HexDigits == <<"0", "1", "2", "3", "4", "5", "6", "7", "8", "9",
               "a", "b", "c", "d", "e", "f">>

IsHex(c) == \E i \in 1..16 : HexDigits[i] = Lower(c)

HexVal(c) == (CHOOSE i \in 1..16 : HexDigits[i] = Lower(c)) - 1

\* the character with the given code; codes outside the model's alphabet
\* decode to a character no model string holds
Chr(n) ==
    CASE n = 35 -> "#"
      [] n = 37 -> "%"
      [] n = 45 -> "-"
      [] n = 47 -> "/"
      [] n = 59 -> ";"
      [] n = 63 -> "?"
      [] n = 65 -> "A"
      [] n = 92 -> "\\"
      [] n = 97 -> "a"
      [] OTHER -> "<chr>"

\* urllib.parse.unquote(s): every %XX escape becomes the character it names
RECURSIVE Unquote(_)
Unquote(s) ==
    IF s = <<>> THEN <<>>
    ELSE IF Head(s) = "%" /\ Len(s) >= 3 /\ IsHex(s[2]) /\ IsHex(s[3])
         THEN <<Chr(16 * HexVal(s[2]) + HexVal(s[3]))>> \o Unquote(Drop(s, 3))
         ELSE <<Head(s)>> \o Unquote(Tail(s))

\* Path(p).name: the last component of p that is neither empty nor "."
RECURSIVE PathName(_)
PathName(p) ==
    LET cut  == RFind(p, "/", Len(p))
        tail == Drop(p, cut)
    IN  IF p = <<>> THEN <<>>
        ELSE IF tail = <<>> \/ tail = <<".">>
             THEN (IF cut = 0 THEN <<>> ELSE PathName(Take(p, cut - 1)))
             ELSE tail

\* s.split("-")[-1]
LastToken(s) == Drop(s, RFind(s, "-", Len(s)))

\* lines 117-118: "/C:/..." loses its leading slash
StripDriveSlash(p) ==
    IF Len(p) > 2 /\ p[1] = "/" /\ p[3] = ":" THEN Tail(p) ELSE p

\* the file name _parse_watch_id looks for in STORE_DIR
UriFileName(uri) == PathName(StripDriveSlash(Unquote(UrlPath(uri))))

NoId == <<>>

Raised(kind) == [error |-> kind, watch_id |-> NoId]

\* lines 132-140: the id the file embeds, else the last token of its stem
WatchIdOf(embedded, file_name) ==
    IF embedded # NoId THEN [error |-> "none", watch_id |-> embedded]
    ELSE IF LastToken(Stem(file_name)) = NoId THEN Raised("ValueError")
    ELSE [error |-> "none", watch_id |-> LastToken(Stem(file_name))]

\* lines 122-140, for the file name taken from the URI
ParseFile(st, file_name) ==
    IF file_name \in {<<>>, <<".", ".">>} THEN Raised("IsADirectoryError")
    ELSE IF ~Exists(st, file_name) THEN Raised("FileNotFoundError")
    ELSE IF ~st[file_name].valid THEN Raised("ValueError")
    ELSE IF ~IsDict(st[file_name]) THEN Raised("AttributeError")
    ELSE WatchIdOf(st[file_name].watch_id, file_name)

ParseWatchIdAnyScheme(st, uri) == ParseFile(st, UriFileName(uri))

ParseWatchId(st, uri) ==
    IF UrlScheme(uri) \notin {"", "file"} THEN Raised("ValueError")
    ELSE ParseFile(st, UriFileName(uri))

----------------------------------------------------------------------------
(* The record store *)

\* the files _locate_watch_file may return: the legacy file when it exists,
\* otherwise the first parsable file of the scan that embeds the id (the
\* directory order decides which when several do); none is FileNotFoundError
LocateWatchFileOfAnyId(st, watch_id) ==
    IF Exists(st, watch_id \o JsonExt) THEN {watch_id \o JsonExt}
    ELSE {f \in DOMAIN st : IsDict(st[f])}

LocateWatchFile(st, watch_id) ==
    IF Exists(st, watch_id \o JsonExt) THEN {watch_id \o JsonExt}
    ELSE {f \in DOMAIN st : IsDict(st[f]) /\ st[f].watch_id = watch_id}

\* the exceptions _locate_watch_file may raise: the scan calls .get on what
\* every file before the match parses to (line 91), so a file that holds no
\* object raises AttributeError when the scan meets it, which the directory
\* order decides unless no file matches; FileNotFoundError ends a scan that
\* met neither (line 94)
LocateErrors(st, watch_id) ==
    IF Exists(st, watch_id \o JsonExt) THEN {}
    ELSE IF \E f \in DOMAIN st : st[f] = NotADict THEN {"AttributeError"}
    ELSE IF LocateWatchFile(st, watch_id) = {} THEN {"FileNotFoundError"}
    ELSE {}

\* the exception lines 145-147 raise on the located file, "none" without one
LoadError(st, path) ==
    IF ~st[path].valid THEN "JSONDecodeError"
    ELSE IF ~IsDict(st[path]) THEN "AttributeError"
    ELSE "none"

\* json.loads of the located file, with the two setdefault calls
LoadWatchInitial(st, path) ==
    [st[path] EXCEPT !.history = <<@[1]>>, !.status = "watching"]

LoadWatch(st, path) ==
    LET payload == st[path] IN
    [payload EXCEPT
        !.file_name = IF payload.file_name = <<>> THEN path ELSE @,
        !.resource_name = IF payload.resource_name = <<>>
                          THEN <<"flight-watch-">> \o Stem(path) ELSE @]

\* path.write_text(json.dumps(payload))
WriteWatchFile(st, path, payload) ==
    [f \in (DOMAIN st) \cup {path} |->
        IF f = path THEN [payload EXCEPT !.valid = TRUE] ELSE st[f]]

\* the store once _load_watch has returned the payload of the file at path:
\* the two setdefault calls change the dict in memory, nothing is written
StoreAfterLoadWritten(st, path) ==
    WriteWatchFile(st, path, LoadWatch(st, path))

StoreAfterLoad(st, path) == st

\* the file _save_watch writes: the one the payload names, else a located one
SavePaths(st, watch_id, payload) ==
    IF payload.file_name # <<>> THEN {payload.file_name}
    ELSE LocateWatchFile(st, watch_id)

SaveWatch(st, path, payload) ==
    WriteWatchFile(st, path, [payload EXCEPT !.file_name = path])

----------------------------------------------------------------------------
(* Values of the tool arguments *)

\* an argument that is absent (arguments.get gives None)
None == <<"<None>">>

\* a price argument: absent, a JSON number, a string holding a number, or a
\* string float() cannot convert
NoPrice == [t |-> "none", v |-> 0]
Num(n) == [t |-> "num", v |-> n]
NumStr(n) == [t |-> "str", v |-> n]
BadPrice == [t |-> "bad", v |-> 0]

\* float(p) succeeds
Convertible(p) == p.t \in {"num", "str"}

\* float(p)
ToFloat(p) == p.v

MinPrice == 50
DeltaMin == -40
DeltaMax == 20

\* the values of rng.randint(-40, 20) the model draws
Deltas == {DeltaMin, DeltaMax}

MaxAsMin(a, b) == IF a <= b THEN a ELSE b

Max(a, b) == IF a >= b THEN a ELSE b

----------------------------------------------------------------------------
(* handle_call_tool: track_flight_price *)

\* the characters uuid4().hex may begin with; the k-th id minted draws its
\* first character among the first k of them, its tail is unique
IdChars == <<"a", "b", "c", "d">>

IdPrefixes(n) == {IdChars[i] : i \in 1..(IF n + 1 < 4 THEN n + 1 ELSE 4)}

NewWatchIdReused(first, n) == <<first, Digits[1]>>

NewWatchId(first, n) == <<first, Digits[n + 1]>>

\* str(x) of a string argument (lines 307-309)
StrOf(x) == IF x = None THEN <<"N", "o", "n", "e">> ELSE x

\* None in {origin, destination, departure_date, initial_price}
MissingRequiredButDate(args) ==
    \/ None \in {args.origin, args.destination}
    \/ args.initial_price.t = "none"

MissingRequired(args) ==
    \/ None \in {args.origin, args.destination, args.departure_date}
    \/ args.initial_price.t = "none"

\* lines 313-334: the record create persists
InitialPayloadZeroPrice(args, watch_id, alloc) ==
    [valid          |-> TRUE,
     watch_id       |-> watch_id,
     origin         |-> StrOf(args.origin),
     destination    |-> StrOf(args.destination),
     departure_date |-> StrOf(args.departure_date),
     status         |-> "watching",
     target_price   |-> args.target_price,
     context_file   |-> args.context_file,
     history        |-> <<[sequence |-> 0, status |-> "snapshot",
                           price |-> 0, note |-> "initial"]>>,
     summary        |-> <<>>,
     file_name      |-> alloc.file_name,
     resource_name  |-> alloc.resource_name]

InitialPayload(args, watch_id, alloc) ==
    [valid          |-> TRUE,
     watch_id       |-> watch_id,
     origin         |-> StrOf(args.origin),
     destination    |-> StrOf(args.destination),
     departure_date |-> StrOf(args.departure_date),
     status         |-> "watching",
     target_price   |-> args.target_price,
     context_file   |-> args.context_file,
     history        |-> <<[sequence |-> 0, status |-> "snapshot",
                           price |-> ToFloat(args.initial_price),
                           note |-> "initial"]>>,
     summary        |-> <<>>,
     file_name      |-> alloc.file_name,
     resource_name  |-> alloc.resource_name]

\* the task asyncio.create_task starts, suspended in its first sleep
NewTaskNotifying(args, uri) ==
    [pc             |-> "sending",
     uri            |-> uri,
     target_price   |-> IF args.target_price.t = "none" THEN NoPrice
                        ELSE Num(ToFloat(args.target_price)),
     progress_token |-> args.progress_token,
     payload        |-> <<>>,
     saved          |-> 0,
     requested      |-> 1,
     failed         |-> 0]

NewTask(args, uri) ==
    [pc             |-> "sleep",
     uri            |-> uri,
     target_price   |-> IF args.target_price.t = "none" THEN NoPrice
                        ELSE Num(ToFloat(args.target_price)),
     progress_token |-> args.progress_token,
     payload        |-> <<>>,
     saved          |-> 0,
     requested      |-> 0,
     failed         |-> 0]

NoLink == [uri |-> <<>>, name |-> <<>>, file_name |-> <<>>,
           resource_name |-> <<>>, watch_id |-> NoId, status |-> ""]

CallError(kind) ==
    [op |-> "call_tool", error |-> kind, link |-> NoLink, resources |-> <<>>,
     contents |-> <<>>]

\* what one call of handle_call_tool does to the store and the tasks and what
\* it answers, in the order of the code: the missing-argument check, the
\* payload with float(initial_price), the allocation and the write, the task
\* with float(target_price), the resource link
CallTool(st, tk, n, args, first) ==
    LET watch_id == NewWatchId(first, n)
        alloc    == AllocateWatchFile(st, watch_id, StrOf(args.origin),
                                      StrOf(args.destination),
                                      StrOf(args.departure_date))
        payload  == InitialPayload(args, watch_id, alloc)
        written  == WriteWatchFile(st, alloc.file_name, payload)
        uri      == ResourceUri(StorePath(alloc.file_name))
    IN  IF MissingRequired(args)
        THEN [store |-> st, tasks |-> tk, minted |-> n,
              reply |-> CallError("missing")]
        ELSE IF ~Convertible(args.initial_price)
        THEN [store |-> st, tasks |-> tk, minted |-> n + 1,
              reply |-> CallError("float_initial")]
        ELSE IF args.session /\ args.target_price.t = "bad"
        THEN [store |-> written, tasks |-> tk, minted |-> n + 1,
              reply |-> CallError("float_target")]
        ELSE [store  |-> written,
              tasks  |-> IF args.session
                         THEN tk @@ (watch_id :> NewTask(args, uri)) ELSE tk,
              minted |-> n + 1,
              reply  |-> [op |-> "call_tool", error |-> "none",
                          resources |-> <<>>, contents |-> <<>>,
                          link |-> [uri |-> uri,
                                    name |-> alloc.resource_name,
                                    file_name |-> alloc.file_name,
                                    resource_name |-> alloc.resource_name,
                                    watch_id |-> watch_id,
                                    status |-> payload.status]]]

\* No task is inside the synchronous part of a tick: the event loop is free
\* to run a handler or to resume another task
LoopFree == \A w \in DOMAIN tasks : tasks[w].pc \notin {"loaded", "saved"}

HandleCallTool(args, first) ==
    /\ LoopFree
    /\ minted < MaxWatches
    /\ LET r == CallTool(store, tasks, minted, args, first) IN
       /\ store' = r.store
       /\ tasks' = r.tasks
       /\ minted' = r.minted
       /\ reply' = r.reply
       /\ issued' = IF r.reply.error = "none"
                    THEN issued \cup {r.reply.link.file_name} ELSE issued
    /\ UNCHANGED research

----------------------------------------------------------------------------
(* _simulate_price_updates: one task per watch.  Its pc is                  *)
(*   "sleep"    suspended in anyio.sleep                                    *)
(*   "loaded"   record loaded and updated in memory, not yet saved          *)
(*   "saved"    record saved, send_resource_updated not yet called          *)
(*   "sending"  suspended in send_resource_updated                          *)
(*   "progress" suspended in send_progress_notification                     *)
(*   "done"     left the loop by a break                                    *)
(*   "crashed"  ended by an exception _load_watch or _save_watch raised     *)
(* The fields saved, requested and failed count the records the task has    *)
(* saved, its calls of send_resource_updated and the failures it has logged.*)

\* line 175: the statuses at which the loop breaks right after the load
IsTerminalMisspelt(payload) == payload.status \in {"notified", "canceled"}

IsTerminal(payload) == payload.status \in {"notified", "cancelled"}

\* lines 181-186: the entry a tick appends
StageOneBased(history, new_price) ==
    [sequence |-> Len(history) + 1, status |-> "price_update",
     price |-> new_price, note |-> "quote"]

Stage(history, new_price) ==
    [sequence |-> Len(history), status |-> "price_update",
     price |-> new_price, note |-> "quote"]

\* lines 178-199: the new history entry and the status decided from the
\* target_price the task was started with
AdvanceBelowOnly(payload, target_price, delta) ==
    LET history       == payload.history
        current_price == history[Len(history)].price
        new_price     == Max(current_price + delta, MinPrice)
        hit           == target_price.t # "none" /\ new_price < target_price.v
    IN  [payload EXCEPT
            !.history = Append(history, Stage(history, new_price)),
            !.status  = IF hit THEN "notified" ELSE "watching",
            !.summary = IF hit THEN <<new_price, target_price.v>> ELSE @]

AdvanceNoFloor(payload, target_price, delta) ==
    LET history       == payload.history
        current_price == history[Len(history)].price
        new_price     == current_price + delta
        hit           == target_price.t # "none" /\ new_price <= target_price.v
    IN  [payload EXCEPT
            !.history = Append(history, Stage(history, new_price)),
            !.status  = IF hit THEN "notified" ELSE "watching",
            !.summary = IF hit THEN <<new_price, target_price.v>> ELSE @]

AdvanceReplacingHistory(payload, target_price, delta) ==
    LET history       == payload.history
        current_price == history[Len(history)].price
        new_price     == Max(current_price + delta, MinPrice)
        hit           == target_price.t # "none" /\ new_price <= target_price.v
    IN  [payload EXCEPT
            !.history = <<Stage(history, new_price)>>,
            !.status  = IF hit THEN "notified" ELSE "watching",
            !.summary = IF hit THEN <<new_price, target_price.v>> ELSE @]

Advance(payload, target_price, delta) ==
    LET history       == payload.history
        current_price == history[Len(history)].price
        new_price     == Max(current_price + delta, MinPrice)
        hit           == target_price.t # "none" /\ new_price <= target_price.v
    IN  [payload EXCEPT
            !.history = Append(history, Stage(history, new_price)),
            !.status  = IF hit THEN "notified" ELSE "watching",
            !.summary = IF hit THEN <<new_price, target_price.v>> ELSE @]

\* lines 239-240, reached after the try block whether or not a send raised:
\* the task leaves the loop or sleeps again (its payload is dead from here on)
AfterNotify(task) ==
    [task EXCEPT
        !.pc = IF task.payload[1].status = "notified" THEN "done" ELSE "sleep",
        !.payload = <<>>]

\* line 204: the call of send_resource_updated, in which the task is suspended
NotifyAfterBreak(task) ==
    IF task.payload[1].status = "notified"
    THEN [task EXCEPT !.pc = "done", !.payload = <<>>]
    ELSE [task EXCEPT !.pc = "sending", !.requested = @ + 1]

Notify(task) == [task EXCEPT !.pc = "sending", !.requested = @ + 1]

\* lines 236-237: the except clause logs the failure and falls through
Caught(task) == AfterNotify([task EXCEPT !.failed = @ + 1])

\* lines 204-237 once send_resource_updated has returned (ok) or raised: with
\* a progress token the task goes on into send_progress_notification
OnSentUncaught(task, ok) ==
    IF ~ok THEN [task EXCEPT !.pc = "crashed", !.failed = @ + 1]
    ELSE IF task.progress_token THEN [task EXCEPT !.pc = "progress"]
    ELSE AfterNotify(task)

OnSent(task, ok) ==
    IF ~ok THEN Caught(task)
    ELSE IF task.progress_token THEN [task EXCEPT !.pc = "progress"]
    ELSE AfterNotify(task)

\* lines 229-237 once send_progress_notification has returned (ok) or raised
OnProgress(task, ok) == IF ok THEN AfterNotify(task) ELSE Caught(task)

\* the ticks that have appended an entry so far, over the tasks ws
RECURSIVE TicksOf(_)
TicksOf(ws) ==
    IF ws = {} THEN 0
    ELSE LET w == CHOOSE x \in ws : TRUE IN
         tasks[w].saved + (IF tasks[w].pc = "loaded" THEN 1 ELSE 0)
             + TicksOf(ws \ {w})

\* the sleep ends: lines 174-199
SimLoad(w) ==
    /\ LoopFree
    /\ tasks[w].pc = "sleep"
    /\ UNCHANGED <<store, minted, reply, issued, research>>
    /\ \/ /\ LocateErrors(store, w) # {}
          /\ tasks' = [tasks EXCEPT ![w].pc = "crashed"]
       \/ \E path \in LocateWatchFile(store, w) :
            IF LoadError(store, path) # "none"
            THEN tasks' = [tasks EXCEPT ![w].pc = "crashed"]
            ELSE LET payload == LoadWatch(store, path) IN
                 IF IsTerminal(payload)
                 THEN tasks' = [tasks EXCEPT ![w].pc = "done"]
                 ELSE /\ TicksOf(DOMAIN tasks) < MaxTicks
                      /\ \E delta \in Deltas :
                           tasks' = [tasks EXCEPT
                               ![w].pc = "loaded",
                               ![w].payload =
                                   <<Advance(payload, tasks[w].target_price, delta)>>]

\* line 201: _save_watch
SimSave(w) ==
    /\ tasks[w].pc = "loaded"
    /\ UNCHANGED <<minted, reply, issued, research>>
    /\ IF SavePaths(store, w, tasks[w].payload[1]) = {}
       THEN /\ tasks' = [tasks EXCEPT ![w].pc = "crashed"]
            /\ UNCHANGED store
       ELSE \E path \in SavePaths(store, w, tasks[w].payload[1]) :
            /\ store' = SaveWatch(store, path, tasks[w].payload[1])
            /\ tasks' = [tasks EXCEPT ![w].pc = "saved", ![w].saved = @ + 1]

\* line 204
SimRequest(w) ==
    /\ tasks[w].pc = "saved"
    /\ UNCHANGED <<store, minted, reply, issued, research>>
    /\ tasks' = [tasks EXCEPT ![w] = Notify(@)]

\* send_resource_updated returns (ok) or raises
SimSent(w, ok) ==
    /\ LoopFree
    /\ tasks[w].pc = "sending"
    /\ UNCHANGED <<store, minted, reply, issued, research>>
    /\ tasks' = [tasks EXCEPT ![w] = OnSent(@, ok)]

\* lines 208 and 231: the count the progress notification carries, the
\* length of the history just saved
ProgressCount(task) == Len(task.payload[1].history)

\* send_progress_notification returns (ok) or raises
SimProgress(w, ok) ==
    /\ LoopFree
    /\ tasks[w].pc = "progress"
    /\ UNCHANGED <<store, minted, reply, issued, research>>
    /\ tasks' = [tasks EXCEPT ![w] = OnProgress(@, ok)]

----------------------------------------------------------------------------
(* The external collaborator that cancels a watch by rewriting its record   *)
(* file with status cancelled.  It is another process: it runs at any       *)
(* moment, also between a tick's load and its save.                         *)

Cancelled(payload) == [payload EXCEPT !.status = "cancelled"]

ExternalCancel(f) ==
    /\ IsDict(store[f])
    /\ store[f].status = "watching"
    /\ store' = [store EXCEPT ![f] = Cancelled(@)]
    /\ UNCHANGED <<minted, tasks, reply, issued, research>>

----------------------------------------------------------------------------
(* Faults of the store: a collaborator deletes a record file or replaces    *)
(* its content by something that is no record, and a write of the engine    *)
(* fails.                                                                   *)

ExternalDelete(f) ==
    /\ store' = [g \in DOMAIN store \ {f} |-> store[g]]
    /\ UNCHANGED <<minted, tasks, reply, issued, research>>

ExternalCorrupt(f, content) ==
    /\ store[f] # content
    /\ store' = [store EXCEPT ![f] = content]
    /\ UNCHANGED <<minted, tasks, reply, issued, research>>

\* path.write_text opens the file for writing, which empties it, and then
\* writes the text: an OSError of open leaves the file as it was (absent when
\* it was absent), one of write leaves a file with part of the text or none
WriteOutcomes(st, path) ==
    {st} \cup {[f \in (DOMAIN st) \cup {path} |->
                   IF f = path THEN Unparsable ELSE st[f]]}

\* line 201 when _write_watch_file raises: nothing catches it in the task
SimSaveFails(w) ==
    /\ tasks[w].pc = "loaded"
    /\ UNCHANGED <<minted, reply, issued, research>>
    /\ \E path \in SavePaths(store, w, tasks[w].payload[1]) :
           store' \in WriteOutcomes(store, path)
    /\ tasks' = [tasks EXCEPT ![w].pc = "crashed", ![w].payload = <<>>]

----------------------------------------------------------------------------
(* The research servers, research_1_todo.py ("todo") and                    *)
(* research_4_human_in_loop.py ("hitl").  research holds one call of a      *)
(* server's tool handler and the session of research_agent_tool it runs.    *)
(* Its pc is                                                                *)
(*   "idle"     no call yet                                                 *)
(*   "todo"     research_1_todo's tool between two of its steps             *)
(*   "loop"     at the head of the while loop, a payload pending            *)
(*   "stream"   inside the for loop over agent.stream                       *)
(*   "returned" the call has returned, outcome says what                    *)
(*   "raised"   the call has raised, outcome says what                      *)
(* The agent, the search backend and the client that answers elicitations   *)
(* and receives progress notifications are collaborators: what they yield   *)
(* is an input of the steps.  Texts are sequences of tokens.                *)

\* None, or a key a dict lacks
NoValue == "None"

\* no todos: an empty list, or no todo list at all
NoTodos == "none"

\* len(steps) of research_1_todo's research_agent_tool
TotalSteps == 4

\* the chunks of a session's streams that the loop takes
MaxChunks == 3

\* the calls of internet_search the agent makes in a session
MaxSearches == 2

NoSession ==
    [server |-> "none", pc |-> "idle", outcome |-> "none", result |-> <<>>,
     ctx |-> FALSE, progress_token |-> FALSE, current_step |-> 0,
     thread |-> 0, streams |-> {}, pending |-> <<>>, chunks |-> 0,
     interrupts |-> 0, resumes |-> 0, final_response_text |-> <<>>,
     seen |-> <<>>, last_reported_todos |-> NoTodos, elicited |-> <<>>,
     search_invocations |-> 0, last_search_payload |-> NoValue,
     backend_calls |-> 0, searches |-> 0, search_reply |-> "none"]

Returned(r, outcome, result) ==
    [r EXCEPT !.pc = "returned", !.outcome = outcome, !.result = result]

Raise(r, outcome) == [r EXCEPT !.pc = "raised", !.outcome = outcome]

\* the Command that resumes the thread with the responses
Resume(responses) == [type |-> "resume", responses |-> responses]

\* research_4_human_in_loop.research_agent_tool up to its while loop: the
\* closure variables, the thread the uuid names, the first payload
ResearchAgentTool(r, ctx, progress_token) ==
    [r EXCEPT !.server = "hitl", !.pc = "loop", !.ctx = ctx,
              !.progress_token = progress_token, !.thread = 1,
              !.pending = <<[type |-> "messages", responses |-> <<>>]>>]

\* research_1_todo.research_agent_tool up to its first step
TodoAgentTool(r, progress_token) ==
    [r EXCEPT !.server = "todo", !.pc = "todo", !.ctx = TRUE,
              !.progress_token = progress_token, !.current_step = 1]

\* handle_call_tool of either server: the if, elif, else of its last lines
Route(r, srv, name, arguments, progress_token) ==
    IF arguments = NoValue
    THEN Returned([r EXCEPT !.server = srv], "None", <<>>)
    ELSE IF name = "research_agent_tool"
    THEN (IF srv = "todo" THEN TodoAgentTool(r, progress_token)
          ELSE ResearchAgentTool(r, TRUE, progress_token))
    ELSE Raise([r EXCEPT !.server = srv], "ValueError")

Flight == <<store, minted, tasks, reply, issued>>

ResearchHandleCallTool(srv, name, arguments, progress_token) ==
    /\ research.pc = "idle"
    /\ research' = Route(research, srv, name, arguments, progress_token)
    /\ UNCHANGED Flight

\* research_4_human_in_loop.research_agent_tool called without the handler
CallResearchAgentTool(ctx, progress_token) ==
    /\ research.pc = "idle"
    /\ research' = ResearchAgentTool(research, ctx, progress_token)
    /\ UNCHANGED Flight

\* one step of research_1_todo's tool, from its progress notification to the
\* end of its sleep, and after the last step the final notification and the
\* return of the text; sent says whether send_progress_notification returned or raised
TodoStepOf(r, sent) ==
    IF r.progress_token /\ ~sent THEN Raise(r, "Exception")
    ELSE IF r.current_step <= TotalSteps
    THEN [r EXCEPT !.current_step = @ + 1]
    ELSE Returned(r, "result", <<"completed">>)

TodoStep(sent) ==
    /\ research.pc = "todo"
    /\ research' = TodoStepOf(research, sent)
    /\ UNCHANGED Flight

\* parse_message_text: a str as it is, the items of a list joined by "\n"
RECURSIVE JoinLines(_)
JoinLines(items) ==
    IF items = <<>> THEN <<>>
    ELSE IF Len(items) = 1 THEN items[1]
    ELSE items[1] \o <<"\n">> \o JoinLines(Tail(items))

ParseMessageText(content) ==
    IF content.kind = "str" THEN content.text ELSE JoinLines(content.items)

StrContent(text) == [kind |-> "str", text |-> text, items |-> <<>>]

ListContent(items) == [kind |-> "list", text |-> <<>>, items |-> items]

\* emit_progress(todos): whether it reaches send_progress_notification, and
\* the value it leaves in last_reported_todos
EmitSends(todos, last, ctx, progress_token) ==
    todos # NoTodos /\ todos # last /\ ctx /\ progress_token

EmitLast(todos, last) == IF todos = NoTodos THEN last ELSE todos

\* the tool of the approval request, its arguments, the default refusal
ToolName == "internet_search"

ToolArgs == "args"

DefaultDecline == "Request declined by user."

Accept ==
    [type |-> "accept", action |-> NoValue, args |-> NoValue,
     message |-> NoValue]

\* what the client answers to ctx.session.elicit: the call raises, or the
\* result has an action and, when the action is accept, the form's content
NoContent ==
    [decision |-> NoValue, notes |-> "", new_action |-> NoValue,
     new_args |-> NoValue]

Contents ==
    {NoContent, [NoContent EXCEPT !.decision = "accept"]}
    \cup {[NoContent EXCEPT !.decision = "decline", !.notes = n] :
              n \in {"", "no"}}
    \cup {[NoContent EXCEPT !.decision = "edit", !.new_action = a,
                            !.new_args = g] :
              a \in {NoValue, "other_tool"}, g \in {NoValue, "other_args"}}

Elicitations ==
    {[raised |-> TRUE, action |-> NoValue, has_content |-> FALSE,
      content |-> NoContent]}
    \cup {[raised |-> FALSE, action |-> "accept", has_content |-> TRUE,
           content |-> c] : c \in Contents}
    \cup {[raised |-> FALSE, action |-> a, has_content |-> FALSE,
           content |-> NoContent] : a \in {"decline", "cancel"}}

\* decision, as the lines after the elicitation leave it
Decision(e) ==
    IF e.has_content /\ e.content.decision # NoValue THEN e.content.decision
    ELSE IF e.action = "decline" THEN "decline"
    ELSE "accept"

\* the response for a decision
Respond(decision, content) ==
    IF decision = "accept" THEN Accept
    ELSE IF decision = "edit"
    THEN [type |-> "edit",
          action |-> IF content.new_action # NoValue
                     THEN content.new_action ELSE ToolName,
          args |-> IF content.new_args # NoValue
                   THEN content.new_args ELSE ToolArgs,
          message |-> NoValue]
    ELSE [type |-> "response", action |-> NoValue, args |-> NoValue,
          message |-> IF content.notes # "" THEN content.notes
                      ELSE DefaultDecline]

\* handle_interrupts calls ctx.session.elicit
Elicits(interrupt, ctx) == interrupt = "request" /\ ctx

\* handle_interrupts, for an interrupt whose value is not a non-empty list
\* ("malformed") or is a list of approval requests ("request")
HandleInterrupts(interrupt, ctx, e) ==
    IF ~Elicits(interrupt, ctx) \/ e.raised THEN <<Accept>>
    ELSE <<Respond(Decision(e), e.content)>>

\* the loop body at a chunk that reports an interrupt: the responses become
\* the pending resume command and the break leaves the stream
OnInterruptNoBreak(r, interrupt, e) ==
    [r EXCEPT !.pending = <<Resume(HandleInterrupts(interrupt, r.ctx, e))>>,
              !.interrupts = @ + 1,
              !.elicited = IF Elicits(interrupt, r.ctx) THEN <<e>> ELSE <<>>]

OnInterrupt(r, interrupt, e) ==
    [r EXCEPT !.pc = "loop",
              !.pending = <<Resume(HandleInterrupts(interrupt, r.ctx, e))>>,
              !.interrupts = @ + 1,
              !.elicited = IF Elicits(interrupt, r.ctx) THEN <<e>> ELSE <<>>]

\* the loop body at one message: emit_progress for its write_todos call,
\* then the text of an AI message; sent is the outcome of a send
OnMessage(r, m, sent) ==
    IF EmitSends(m.todos, r.last_reported_todos, r.ctx, r.progress_token)
       /\ ~sent
    THEN Raise([r EXCEPT !.last_reported_todos = m.todos], "Exception")
    ELSE [r EXCEPT
             !.last_reported_todos = EmitLast(m.todos, @),
             !.final_response_text =
                 IF m.type = "ai" THEN ParseMessageText(m.content) ELSE @,
             !.seen = IF m.type = "ai" THEN <<m.content>> ELSE @]

RECURSIVE OnMessages(_, _, _)
OnMessages(r, messages, sent) ==
    IF messages = <<>> \/ r.pc = "raised" THEN r
    ELSE OnMessages(OnMessage(r, Head(messages), sent), Tail(messages), sent)

\* the loop body up to the interrupt test: emit_progress for the todos of
\* the chunk's state
AfterStateTodos(r, chunk) ==
    [r EXCEPT !.chunks = @ + 1,
              !.last_reported_todos = EmitLast(chunk.todos, @)]

\* the loop body at one chunk of the stream
ProcessChunk(r, chunk, sent, e) ==
    IF ~chunk.dict THEN [r EXCEPT !.chunks = @ + 1]
    ELSE IF EmitSends(chunk.todos, r.last_reported_todos, r.ctx,
                      r.progress_token) /\ ~sent
    THEN Raise(AfterStateTodos(r, chunk), "Exception")
    ELSE IF chunk.interrupt # "absent"
    THEN OnInterrupt(AfterStateTodos(r, chunk), chunk.interrupt, e)
    ELSE IF ~chunk.has_messages THEN AfterStateTodos(r, chunk)
    ELSE OnMessages(AfterStateTodos(r, chunk), chunk.messages, sent)

\* the chunks agent.stream yields in the mode "values": something that is
\* no dict, a state with todos and no messages, an interrupt alone, a list
\* of messages
Message(type, content, todos) ==
    [type |-> type, content |-> content, todos |-> todos]

Plain ==
    [dict |-> TRUE, todos |-> NoTodos, interrupt |-> "absent",
     has_messages |-> FALSE, messages |-> <<>>]

Chunks ==
    {[Plain EXCEPT !.dict = FALSE]}
    \cup {[Plain EXCEPT !.todos = t] : t \in {NoTodos, "todos1", "todos2"}}
    \cup {[Plain EXCEPT !.interrupt = i] : i \in {"malformed", "request"}}
    \cup {[Plain EXCEPT !.has_messages = TRUE, !.messages = ms] :
              ms \in {<<Message("human", StrContent(<<"q">>), NoTodos)>>,
                      <<Message("ai", StrContent(<<>>), "todos1")>>,
                      <<Message("ai", StrContent(<<"r1">>), NoTodos),
                        Message("tool", StrContent(<<"t">>), NoTodos)>>,
                      <<Message("ai", StrContent(<<"r1">>), NoTodos),
                        Message("ai",
                                ListContent(<<<<"r2">>, <<"r3">>>>),
                                "todos2")>>}}

\* the head of the while loop: the pending payload becomes the current one
\* and agent.stream is called with it on the session's thread
StreamStart ==
    /\ research.pc = "loop"
    /\ research' = [research EXCEPT
           !.pc = "stream",
           !.pending = <<>>,
           !.streams = @ \cup {research.thread},
           !.resumes = IF research.pending[1].type = "resume"
                       THEN @ + 1 ELSE @]
    /\ UNCHANGED Flight

StreamChunk(chunk, sent, e) ==
    /\ research.pc = "stream"
    /\ research.chunks < MaxChunks
    /\ research' = ProcessChunk(research, chunk, sent, e)
    /\ UNCHANGED Flight

\* the stream is exhausted: without a pending payload the loop is left and
\* the tool returns final_response_text
StreamEnd ==
    /\ research.pc = "stream"
    /\ research' = IF research.pending = <<>>
                   THEN Returned(research, "result",
                                 research.final_response_text)
                   ELSE [research EXCEPT !.pc = "loop"]
    /\ UNCHANGED Flight

\* internet_search, called by the agent while a stream runs; found says
\* whether tavily_client.search returned or raised
Search(r, found) ==
    IF r.search_invocations >= 1
    THEN [r EXCEPT !.searches = @ + 1,
                   !.search_reply = IF r.last_search_payload = NoValue
                                    THEN "AssertionError"
                                    ELSE r.last_search_payload]
    ELSE [r EXCEPT !.searches = @ + 1,
                   !.search_invocations = @ + 1,
                   !.backend_calls = @ + 1,
                   !.last_search_payload = IF found THEN "payload" ELSE @,
                   !.search_reply = IF found THEN "payload" ELSE "Exception"]

InternetSearch(found) ==
    /\ research.pc = "stream"
    /\ research.searches < MaxSearches
    /\ research' = Search(research, found)
    /\ UNCHANGED Flight

----------------------------------------------------------------------------
(* The engine with its simulators and the cancelling collaborator *)

\* the calls of the engine's clients: a live session always, a target the
\* walk can reach together with a progress token, or neither
EngineArgs ==
    {[origin         |-> <<"L">>,
      destination    |-> <<"x">>,
      departure_date |-> <<"1">>,
      initial_price  |-> Num(60),
      target_price   |-> c.target_price,
      context_file   |-> None,
      session        |-> TRUE,
      progress_token |-> c.progress_token] :
        c \in {[target_price |-> Num(MinPrice), progress_token |-> TRUE],
               [target_price |-> NoPrice, progress_token |-> FALSE]}}

Init ==
    /\ store = <<>>
    /\ minted = 0
    /\ tasks = <<>>
    /\ reply = [op |-> "none", error |-> "none", link |-> NoLink,
                resources |-> <<>>, contents |-> <<>>]
    /\ issued = {}
    /\ research = NoSession

Next ==
    \/ \E args \in EngineArgs : HandleCallTool(args, IdChars[1])
    \/ \E w \in DOMAIN tasks : SimLoad(w)
    \/ \E w \in DOMAIN tasks : SimSave(w)
    \/ \E w \in DOMAIN tasks : SimRequest(w)
    \/ \E w \in DOMAIN tasks : \E ok \in BOOLEAN : SimSent(w, ok)
    \/ \E w \in DOMAIN tasks : \E ok \in BOOLEAN : SimProgress(w, ok)
    \/ \E f \in DOMAIN store : ExternalCancel(f)

Spec == Init /\ [][Next]_vars

----------------------------------------------------------------------------
(* The engine with its simulators over a store that has faults *)

FaultNext ==
    \/ \E args \in EngineArgs : HandleCallTool(args, IdChars[1])
    \/ \E w \in DOMAIN tasks : SimLoad(w)
    \/ \E w \in DOMAIN tasks : SimSave(w)
    \/ \E w \in DOMAIN tasks : SimSaveFails(w)
    \/ \E w \in DOMAIN tasks : SimRequest(w)
    \/ \E w \in DOMAIN tasks : \E ok \in BOOLEAN : SimSent(w, ok)
    \/ \E w \in DOMAIN tasks : \E ok \in BOOLEAN : SimProgress(w, ok)
    \/ \E f \in DOMAIN store : ExternalDelete(f)
    \/ \E f \in DOMAIN store : \E content \in {Unparsable, NotADict} :
           ExternalCorrupt(f, content)

SpecFaults == Init /\ [][FaultNext]_vars

----------------------------------------------------------------------------
(* Sequences of track_flight_price calls, without the simulators' steps *)

BaseArgs ==
    [origin         |-> <<"L">>,
     destination    |-> <<"x">>,
     departure_date |-> <<"1">>,
     initial_price  |-> Num(60),
     target_price   |-> NoPrice,
     context_file   |-> None,
     session        |-> FALSE,
     progress_token |-> FALSE]

AllArgs ==
    [origin         : {<<"L">>, <<"l", "!">>, None},
     destination    : {<<"x">>, <<"-">>, None},
     departure_date : {<<"1">>, None},
     initial_price  : {Num(60), NumStr(70), BadPrice, NoPrice},
     target_price   : {NoPrice, Num(55), BadPrice},
     context_file   : {None},
     session        : BOOLEAN,
     progress_token : {FALSE}]

Differs(a, b) ==
    {k \in {"origin", "destination", "departure_date", "initial_price",
            "target_price", "session"} : a[k] # b[k]}

\* the calls that differ from the base call in at most one argument, with
\* and without a live session
CreateArgs ==
    {a \in AllArgs : Cardinality(Differs(a, BaseArgs) \ {"session"}) <= 1}

CallNext ==
    \E args \in CreateArgs : \E first \in IdPrefixes(minted) :
        HandleCallTool(args, first)

SpecCreate == Init /\ [][CallNext]_vars

----------------------------------------------------------------------------
(* handle_list_resources *)

\* the characters of the model in the order of their codes
AsciiOrder ==
    <<"!", "#", "%", "-", ".", ".json", "/",
      "0", "1", "2", "3", "4", "5", "6", "7", "8", "9", ":", ";", "?",
      "A", "L", "N", "X", "\\",
      "a", "b", "c", "d", "e", "f", "h", "l", "n", "o", "t", "w", "x">>

Code(c) == CHOOSE i \in 1..Len(AsciiOrder) : AsciiOrder[i] = c

\* s < t as Python compares strings
RECURSIVE Less(_, _)
Less(s, t) ==
    IF t = <<>> THEN FALSE
    ELSE IF s = <<>> THEN TRUE
    ELSE IF Head(s) = Head(t) THEN Less(Tail(s), Tail(t))
    ELSE Code(Head(s)) < Code(Head(t))

\* sorted(names)
RECURSIVE Sorted(_)
Sorted(names) ==
    IF names = {} THEN <<>>
    ELSE LET least == CHOOSE n \in names : \A m \in names \ {n} : Less(n, m)
         IN  <<least>> \o Sorted(names \ {least})

\* lines 403-417: the Resource built for one parsable file
ResourceOf(st, path) ==
    LET payload       == st[path]
        file_name     == IF payload.file_name # <<>> THEN payload.file_name
                         ELSE path
        resource_name == IF payload.resource_name # <<>>
                         THEN payload.resource_name
                         ELSE <<"flight-watch-">> \o Stem(file_name)
    IN  [name |-> resource_name, uri |-> ResourceUri(StorePath(path))]

\* the loop of handle_list_resources over the paths still to visit
ListLoopFirstOnly(st, paths) ==
    IF paths = <<>> THEN <<>> ELSE <<ResourceOf(st, Head(paths))>>

RECURSIVE ListLoop(_, _)
ListLoop(st, paths) ==
    IF paths = <<>> THEN <<>>
    ELSE IF ~st[Head(paths)].valid THEN ListLoop(st, Tail(paths))
    ELSE <<ResourceOf(st, Head(paths))>> \o ListLoop(st, Tail(paths))

ListResources(st) == ListLoop(st, Sorted(DOMAIN st))

\* line 403: .get on what a file parsed to is outside the try block, so a
\* file that holds no object ends the handler with AttributeError
ListError(st) ==
    IF \E f \in DOMAIN st : st[f] = NotADict THEN "AttributeError" ELSE "none"

HandleListResources ==
    /\ LoopFree
    /\ reply' = [op |-> "list", error |-> ListError(store), link |-> NoLink,
                 resources |-> IF ListError(store) = "none"
                               THEN ListResources(store) ELSE <<>>,
                 contents |-> <<>>]
    /\ UNCHANGED <<store, minted, tasks, issued, research>>

----------------------------------------------------------------------------
(* handle_read_resource and handle_subscribe_resource *)

Failed(st, kind) == [error |-> kind, payload |-> <<>>, store |-> st]

\* _load_watch(watch_id): every outcome, an exception or the payload loaded,
\* with the store it leaves
Load(st, watch_id) ==
    {Failed(st, e) : e \in LocateErrors(st, watch_id)}
    \cup {IF LoadError(st, path) # "none"
           THEN Failed(st, LoadError(st, path))
           ELSE [error |-> "none", payload |-> <<LoadWatch(st, path)>>,
                 store |-> StoreAfterLoad(st, path)] :
               path \in LocateWatchFile(st, watch_id)}

\* lines 423-424 and 432-433: _parse_watch_id followed by _load_watch
Resolve(st, uri) ==
    IF ParseWatchId(st, uri).error # "none"
    THEN {Failed(st, ParseWatchId(st, uri).error)}
    ELSE Load(st, ParseWatchId(st, uri).watch_id)

\* json.dumps(payload) is what the handler returns
HandleReadResource(uri) ==
    /\ LoopFree
    /\ \E r \in Resolve(store, uri) :
           /\ reply' = [op |-> "read", error |-> r.error, link |-> NoLink,
                        resources |-> <<>>, contents |-> r.payload]
           /\ store' = r.store
    /\ UNCHANGED <<minted, tasks, issued, research>>

\* the handler returns None, or raises what the two calls raise
HandleSubscribeResource(uri) ==
    /\ LoopFree
    /\ \E r \in Resolve(store, uri) :
           /\ reply' = [op |-> "subscribe", error |-> r.error,
                        link |-> NoLink, resources |-> <<>>,
                        contents |-> <<>>]
           /\ store' = r.store
    /\ UNCHANGED <<minted, tasks, issued, research>>

----------------------------------------------------------------------------
(* The store directory as the resource surface and the collaborators that  *)
(* share it see it: records are created, renamed from outside, and listed.  *)

\* the names a collaborator gives a record file
RenameTargets ==
    {<<"b", ".json">>,
     <<"a", "#", "b", ".json">>,
     <<"a", "%", "4", "1", ".json">>,
     <<"a", "\\", "b", ".json">>}

ExternalRename(f, g) ==
    /\ g \notin DOMAIN store
    /\ store' = [x \in (DOMAIN store \ {f}) \cup {g} |->
                    IF x = g THEN store[f] ELSE store[x]]
    /\ UNCHANGED <<minted, tasks, reply, issued, research>>

StoreArgs == {BaseArgs, [BaseArgs EXCEPT !.destination = <<"-">>]}

StoreNext ==
    \/ \E args \in StoreArgs : \E first \in IdPrefixes(minted) :
           HandleCallTool(args, first)
    \/ \E f \in DOMAIN store : \E g \in RenameTargets : ExternalRename(f, g)
    \/ HandleListResources

SpecStore == Init /\ [][StoreNext]_vars

----------------------------------------------------------------------------
(* The engine with its simulators and clients that read the resources whose *)
(* links create returned                                                    *)

\* the calls of these clients: with and without a target, no progress token
ReadArgs == {[a EXCEPT !.progress_token = FALSE] : a \in EngineArgs}

\* the URIs of the links returned so far
LinkUris == {ResourceUri(StorePath(f)) : f \in issued}

ReadNext ==
    \/ \E args \in ReadArgs : HandleCallTool(args, IdChars[1])
    \/ \E w \in DOMAIN tasks : SimLoad(w)
    \/ \E w \in DOMAIN tasks : SimSave(w)
    \/ \E w \in DOMAIN tasks : SimRequest(w)
    \/ \E w \in DOMAIN tasks : \E ok \in BOOLEAN : SimSent(w, ok)
    \/ \E uri \in LinkUris : HandleReadResource(uri)

SpecRead == Init /\ [][ReadNext]_vars

----------------------------------------------------------------------------
(* The engine with its simulators, whose notifications are delivered, a     *)
(* collaborator that deletes record files, and clients that list            *)

ListNext ==
    \/ \E args \in ReadArgs : HandleCallTool(args, IdChars[1])
    \/ \E w \in DOMAIN tasks : SimLoad(w)
    \/ \E w \in DOMAIN tasks : SimSave(w)
    \/ \E w \in DOMAIN tasks : SimRequest(w)
    \/ \E w \in DOMAIN tasks : SimSent(w, TRUE)
    \/ \E f \in DOMAIN store : ExternalDelete(f)
    \/ HandleListResources

SpecList == Init /\ [][ListNext]_vars

----------------------------------------------------------------------------
(* The resource surface over a store that collaborators delete from and     *)
(* write to, the simulators asleep: clients create, list, read, subscribe   *)

\* a collaborator leaves a record without the keys file_name, resource_name,
\* as the records written before these keys existed
ExternalStripNames(f) ==
    /\ IsDict(store[f])
    /\ store[f].file_name # <<>>
    /\ store' = [store EXCEPT ![f].file_name = <<>>, ![f].resource_name = <<>>]
    /\ UNCHANGED <<minted, tasks, reply, issued, research>>

\* a file name create never allocates
NoSuchFile == <<"n", "o", ".json">>

\* the URIs the clients send: those of the links create returned, as they
\* are, without scheme, and with another scheme; the URI of a file that does
\* not exist, with the file scheme and another; the URI of the root and the
\* URI of the parent of the store directory
ProbeUris ==
    LinkUris
    \cup {Tail(uri) : uri \in LinkUris}
    \cup {<<"http://">> \o Tail(uri) : uri \in LinkUris}
    \cup {ResourceUri(StorePath(NoSuchFile)),
          <<"http://">> \o StorePath(NoSuchFile),
          <<"file://", "/">>,
          ResourceUri(StorePath(<<".", ".">>))}

\* the calls of these clients: a live session, a target
SurfaceArgs == {a \in ReadArgs : a.target_price # NoPrice}

SurfaceNext ==
    \/ \E args \in SurfaceArgs : HandleCallTool(args, IdChars[1])
    \/ \E f \in DOMAIN store : ExternalDelete(f)
    \/ \E f \in DOMAIN store : \E content \in {Unparsable, NotADict} :
           ExternalCorrupt(f, content)
    \/ \E f \in DOMAIN store : ExternalStripNames(f)
    \/ \E uri \in ProbeUris : HandleReadResource(uri)
    \/ \E uri \in ProbeUris : HandleSubscribeResource(uri)
    \/ HandleListResources

SpecSurface == Init /\ [][SurfaceNext]_vars

----------------------------------------------------------------------------
(* The engine with its simulators and a collaborator that rewrites the      *)
(* target_price of a record between two ticks                               *)

\* the targets the collaborator writes: none, and one above every price
Retargets == {NoPrice, Num(MinPrice + (MaxTicks + 1) * DeltaMax + 10)}

\* the collaborator rewrites the record with another target_price, while no
\* tick is between its load and its save
ExternalRetarget(f, target) ==
    /\ LoopFree
    /\ IsDict(store[f])
    /\ store[f].target_price # target
    /\ store' = [store EXCEPT ![f].target_price = target]
    /\ UNCHANGED <<minted, tasks, reply, issued, research>>

TargetNext ==
    \/ \E args \in ReadArgs : HandleCallTool(args, IdChars[1])
    \/ \E w \in DOMAIN tasks : SimLoad(w)
    \/ \E w \in DOMAIN tasks : SimSave(w)
    \/ \E w \in DOMAIN tasks : SimRequest(w)
    \/ \E w \in DOMAIN tasks : SimSent(w, TRUE)
    \/ \E f \in DOMAIN store : \E target \in Retargets :
           ExternalRetarget(f, target)

SpecTarget == Init /\ [][TargetNext]_vars

----------------------------------------------------------------------------
(* The engine with clients that have a live session and clients that have   *)
(* none, which create, read, subscribe and list                             *)

\* the calls of these clients: with and without a session, and in a session
\* with a target_price float() cannot convert
ChannelArgs ==
    {[a EXCEPT !.session = b] : a \in SurfaceArgs, b \in BOOLEAN}
    \cup {[a EXCEPT !.target_price = BadPrice] : a \in SurfaceArgs}

ChannelNext ==
    \/ \E args \in ChannelArgs : HandleCallTool(args, IdChars[1])
    \/ \E w \in DOMAIN tasks : SimLoad(w)
    \/ \E w \in DOMAIN tasks : SimSave(w)
    \/ \E w \in DOMAIN tasks : SimRequest(w)
    \/ \E w \in DOMAIN tasks : SimSent(w, TRUE)
    \/ \E uri \in LinkUris : HandleReadResource(uri)
    \/ \E uri \in LinkUris : HandleSubscribeResource(uri)
    \/ HandleListResources

SpecChannel == Init /\ [][ChannelNext]_vars

----------------------------------------------------------------------------
(* The engine with its simulators and the cancelling collaborator, for      *)
(* watches that start at prices below, near and above the lowest price a    *)
(* tick gives                                                               *)

\* the calls of these clients: a price far below the lowest price with a
\* target below it, a price one short of MinPrice - DeltaMax without target,
\* the price MinPrice - DeltaMax with the target MinPrice, and a price from
\* which DeltaMin does not lead to the lowest price
WalkArgs ==
    {[a EXCEPT !.initial_price = Num(c[1]), !.target_price = c[2]] :
        a \in SurfaceArgs,
        c \in {<<10, Num(30)>>,
               <<MinPrice - DeltaMax - 1, NoPrice>>,
               <<MinPrice - DeltaMax, Num(MinPrice)>>,
               <<95, Num(MinPrice)>>}}

WalkNext ==
    \/ \E args \in WalkArgs : HandleCallTool(args, IdChars[1])
    \/ \E w \in DOMAIN tasks : SimLoad(w)
    \/ \E w \in DOMAIN tasks : SimSave(w)
    \/ \E w \in DOMAIN tasks : SimRequest(w)
    \/ \E w \in DOMAIN tasks : SimSent(w, TRUE)
    \/ \E f \in DOMAIN store : ExternalCancel(f)

SpecWalk == Init /\ [][WalkNext]_vars

----------------------------------------------------------------------------
(* The engine with its simulators under a fair random source and a fair     *)
(* event loop, without collaborators.  The source draws every delta again   *)
(* and again: the model lets it draw freely for MaxTicks ticks and has it   *)
(* draw the lowest delta from then on.  The event loop resumes a task whose *)
(* sleep or send has ended.                                                 *)

\* the calls of these clients: a session and a target at the lowest price
LiveArgs == {a \in WalkArgs : a.target_price.t = "num"
                              /\ a.target_price.v >= MinPrice}

\* the sleep ends after the free draws, lines 174-199 with the lowest delta;
\* a task takes no more than 2 * MaxTicks such ticks
SimLoadLowest(w) ==
    /\ LoopFree
    /\ tasks[w].pc = "sleep"
    /\ TicksOf(DOMAIN tasks) >= MaxTicks
    /\ tasks[w].saved < 2 * MaxTicks + 1
    /\ UNCHANGED <<store, minted, reply, issued, research>>
    /\ \E path \in LocateWatchFile(store, w) :
           /\ LoadError(store, path) = "none"
           /\ ~IsTerminal(LoadWatch(store, path))
           /\ tasks' = [tasks EXCEPT
                  ![w].pc = "loaded",
                  ![w].payload = <<Advance(LoadWatch(store, path),
                                           tasks[w].target_price, DeltaMin)>>]

\* a step of a simulator task; the sends are delivered
LiveTaskStep ==
    \E w \in DOMAIN tasks :
        \/ SimLoad(w)
        \/ SimLoadLowest(w)
        \/ SimSave(w)
        \/ SimRequest(w)
        \/ SimSent(w, TRUE)

LiveNext ==
    \/ \E args \in LiveArgs : HandleCallTool(args, IdChars[1])
    \/ \E w \in DOMAIN tasks : SimLoad(w)
    \/ \E w \in DOMAIN tasks : SimLoadLowest(w)
    \/ \E w \in DOMAIN tasks : SimSave(w)
    \/ \E w \in DOMAIN tasks : SimRequest(w)
    \/ \E w \in DOMAIN tasks : SimSent(w, TRUE)

SpecLive == Init /\ [][LiveNext]_vars /\ WF_vars(LiveTaskStep)

----------------------------------------------------------------------------
(* The resource surface with clients that send the base name of a record    *)
(* file behind different directory portions, with and without the file      *)
(* scheme                                                                   *)

\* what these clients put before the base name
DirectoryPortions ==
    {<<"file://", "/">>, <<"file://", "/", "x", "/">>,
     <<"file://", "h", "/", "x", "/", "y", "/">>,
     <<>>, <<"/">>, <<"/", "y", "/">>}

\* the base names they send: those of the links create returned, as they
\* are and followed by ";v", one of no file, and ".." plain and escaped
BaseNames ==
    issued \cup {f \o <<";", "v">> : f \in issued}
    \cup {NoSuchFile, <<".", ".">>, <<"%", "2", "e", "%", "2", "E">>}

DecodeUris == {d \o n : d \in DirectoryPortions, n \in BaseNames}

DecodeNext ==
    \/ \E args \in SurfaceArgs : HandleCallTool(args, IdChars[1])
    \/ \E f \in DOMAIN store : ExternalDelete(f)
    \/ \E f \in DOMAIN store : ExternalCorrupt(f, Unparsable)
    \/ \E uri \in DecodeUris : HandleReadResource(uri)
    \/ \E uri \in DecodeUris : HandleSubscribeResource(uri)

SpecDecode == Init /\ [][DecodeNext]_vars

----------------------------------------------------------------------------
(* The engine with its simulators over a store in which a collaborator      *)
(* renames record files                                                     *)

\* the name the collaborator gives a record file
Renamed == <<"b", ".json">>

RenameNext ==
    \/ \E args \in ReadArgs : HandleCallTool(args, IdChars[1])
    \/ \E w \in DOMAIN tasks : SimLoad(w)
    \/ \E w \in DOMAIN tasks : SimSave(w)
    \/ \E w \in DOMAIN tasks : SimRequest(w)
    \/ \E w \in DOMAIN tasks : SimSent(w, TRUE)
    \/ \E f \in DOMAIN store : ExternalRename(f, Renamed)

SpecRename == Init /\ [][RenameNext]_vars

----------------------------------------------------------------------------
(* The resource surface over a store in which collaborators copy record     *)
(* files, cancel watches and leave records without the key watch_id, the    *)
(* simulators asleep: clients create, read and subscribe by the URI of any  *)
(* file of the store.  The store holds one copy at most, and the watches    *)
(* cancelled are cancelled in the files create wrote.                       *)

\* the names a collaborator gives the copy of the record file of watch_id:
\* a plain name, one that ends in a hyphen, and the legacy name of the watch
CopyTargets(watch_id) ==
    {Renamed, <<"b", "-", ".json">>, watch_id \o JsonExt}

ExternalCopy(f, g) ==
    /\ g \notin DOMAIN store
    /\ store' = [x \in DOMAIN store \cup {g} |->
                    IF x = g THEN store[f] ELSE store[x]]
    /\ UNCHANGED <<minted, tasks, reply, issued, research>>

\* a collaborator leaves a record without the key watch_id
ExternalStripId(f) ==
    /\ IsDict(store[f])
    /\ store[f].watch_id # NoId
    /\ store' = [store EXCEPT ![f].watch_id = NoId]
    /\ UNCHANGED <<minted, tasks, reply, issued, research>>

\* the URIs of the files of the store
FileUris == {ResourceUri(StorePath(f)) : f \in DOMAIN store}

CopyNext ==
    \/ \E args \in SurfaceArgs : HandleCallTool(args, IdChars[1])
    \/ \E f \in issued \cap DOMAIN store :
           /\ DOMAIN store \subseteq issued
           /\ IsDict(store[f])
           /\ \E g \in CopyTargets(store[f].watch_id) : ExternalCopy(f, g)
    \/ \E f \in DOMAIN store : ExternalStripId(f)
    \/ \E f \in issued \cap DOMAIN store : ExternalCancel(f)
    \/ \E uri \in FileUris : HandleReadResource(uri)
    \/ \E uri \in FileUris : HandleSubscribeResource(uri)

SpecCopies == Init /\ [][CopyNext]_vars

----------------------------------------------------------------------------
(* The research servers with their clients, the agent, the search backend   *)

ResearchNext ==
    \/ \E srv \in {"todo", "hitl"} :
       \E name \in {"research_agent_tool", "other_tool"} :
       \E arguments \in {NoValue, "empty", "topic"} :
       \E progress_token \in BOOLEAN :
           ResearchHandleCallTool(srv, name, arguments, progress_token)
    \/ \E ctx, progress_token \in BOOLEAN :
           CallResearchAgentTool(ctx, progress_token)
    \/ \E sent \in BOOLEAN : TodoStep(sent)
    \/ StreamStart
    \/ \E chunk \in Chunks : \E sent \in BOOLEAN : \E e \in Elicitations :
           StreamChunk(chunk, sent, e)
    \/ StreamEnd
    \/ \E found \in BOOLEAN : InternetSearch(found)

\* the loop calls agent.stream as soon as a payload is pending
SpecResearch == Init /\ [][ResearchNext]_vars /\ WF_vars(StreamStart)

----------------------------------------------------------------------------
(* Properties of the engine *)

\* the record file of watch w
FileOf(w) == CHOOSE f \in DOMAIN store : store[f].watch_id = w

\* a step of the engine: a handler call or a step of a simulator task
EngineStep ==
    \/ \E args \in EngineArgs : HandleCallTool(args, IdChars[1])
    \/ \E w \in DOMAIN tasks :
         \/ SimLoad(w)
         \/ SimSave(w)
         \/ SimRequest(w)
         \/ \E ok \in BOOLEAN : SimSent(w, ok) \/ SimProgress(w, ok)

\* a tick has loaded the record in file f and has not saved it yet
InFlight(f) ==
    \E w \in DOMAIN tasks :
        tasks[w].pc = "loaded" /\ tasks[w].payload[1].file_name = f

\* the terminal values of status (spec, section 4.4)
TerminalStatus == {"notified", "cancelled"}

SameRecord(f) ==
    /\ f \in DOMAIN store'
    /\ store'[f].status = store[f].status
    /\ store'[f].history = store[f].history

\* C1 as stated: once the status persisted in a record file is notified or
\* cancelled, no step of the engine appends a history entry to that record or
\* changes its status.
C1_TerminalIsFinal ==
    [][\A f \in DOMAIN store :
          (store[f].status \in TerminalStatus /\ EngineStep)
              => SameRecord(f)]_vars

\* C1 amended: once the persisted status is notified or cancelled while no
\* tick is between its load and its save of that record, no step of the
\* engine ever appends to the record or changes its status, and no tick
\* comes to hold the record loaded again.
C1_TerminalIsFinalOutsideTick ==
    [][\A f \in DOMAIN store :
          (store[f].status \in TerminalStatus /\ ~InFlight(f) /\ EngineStep)
              => (SameRecord(f) /\ ~InFlight(f)')]_vars

\* C1 witness: one simulator has stopped on loading a cancelled record it had
\* written to before, another has stopped after setting notified.
C1_Witness ==
    \E w1, w2 \in DOMAIN tasks :
        /\ tasks[w1].pc = "done" /\ tasks[w1].saved >= 1
        /\ store[FileOf(w1)].status = "cancelled"
        /\ tasks[w2].pc = "done"
        /\ store[FileOf(w2)].status = "notified"

\* what C2 promises of watch w from a state in which its record is cancelled:
\* the record file stays as the cancellation left it (status cancelled, no
\* entry appended), no tick saves or holds the record loaded again, the next
\* load ends the simulator, and send_resource_updated is called no more
\* (but for the call that completes a save made before the cancellation).
CancelHolds(w) ==
    /\ store'[FileOf(w)] = store[FileOf(w)]
    /\ tasks'[w].saved = tasks[w].saved
    /\ tasks'[w].pc # "loaded"
    /\ (tasks[w].pc = "sleep" /\ tasks'[w] # tasks[w] => tasks'[w].pc = "done")
    /\ (tasks'[w].requested # tasks[w].requested => tasks[w].pc = "saved")

\* C2 as stated: a cancellation written at any moment while the simulator
\* runs is observed by its next tick, which terminates without appending,
\* without a further notification, the status staying cancelled.
C2_CancelAtAnyMoment ==
    [][\A w \in DOMAIN tasks :
          store[FileOf(w)].status = "cancelled" => CancelHolds(w)]_vars

\* C2 amended: the same for a cancellation written at any moment other than
\* between a tick's load and its save.
C2_CancelOutsideTick ==
    [][\A w \in DOMAIN tasks :
          (store[FileOf(w)].status = "cancelled" /\ tasks[w].pc # "loaded")
              => CancelHolds(w)]_vars

\* C2 witness: a record was cancelled while its simulator was suspended in a
\* send after a save; the simulator has since observed it and stopped, and
\* the record holds the one entry that tick appended.
C2_Witness ==
    \E w \in DOMAIN tasks :
        /\ tasks[w].pc = "done"
        /\ tasks[w].saved = 1 /\ tasks[w].requested = 1
        /\ store[FileOf(w)].status = "cancelled"
        /\ Len(store[FileOf(w)].history) = 2

\* C3: in every record of the store, history[i].sequence = i counting from 0.
C3_SequenceIsIndex ==
    \A f \in DOMAIN store :
        \A i \in 1..Len(store[f].history) :
            store[f].history[i].sequence = i - 1

\* C3 witness: a record that two ticks have appended to.
C3_Witness ==
    \E f \in DOMAIN store :
        /\ Len(store[f].history) = 3
        /\ store[f].history[3].status = "price_update"

\* C9, in every state: each task has called send_resource_updated once for
\* every record it has saved, but for a save whose call is the task's very
\* next step, and the URI it notifies decodes to its own watch.
C9_Counts ==
    \A w \in DOMAIN tasks :
        /\ tasks[w].requested =
               tasks[w].saved - (IF tasks[w].pc = "saved" THEN 1 ELSE 0)
        /\ ParseWatchId(store, tasks[w].uri) = [error |-> "none", watch_id |-> w]

\* C9, in every step: a call of send_resource_updated is the step right after
\* a save and leaves the store alone; a save is always followed by that call;
\* a tick that finds its record terminal ends the task without a call.
C9_Order ==
    \A w \in DOMAIN tasks :
        /\ tasks'[w].requested # tasks[w].requested
              => /\ tasks[w].pc = "saved"
                 /\ tasks'[w].requested = tasks[w].requested + 1
                 /\ store' = store
        /\ tasks[w].pc = "saved" /\ tasks'[w] # tasks[w]
              => tasks'[w].requested = tasks[w].requested + 1
        /\ tasks[w].pc = "sleep" /\ tasks'[w].pc = "done"
              => /\ tasks'[w].requested = tasks[w].requested
                 /\ store' = store

\* C9: every tick that persists a change calls send_resource_updated for the
\* watch's URI exactly once, after the save and within the same tick, the
\* tick that sets notified included; a tick that finds the record terminal
\* calls it not at all.
C9_OneRequestPerSave == []C9_Counts /\ [][C9_Order]_vars

\* C9 witness: a task has saved twice, the second time setting notified, has
\* notified twice and has left the loop.
C9_Witness ==
    \E w \in DOMAIN tasks :
        /\ tasks[w].pc = "done"
        /\ tasks[w].saved = 2 /\ tasks[w].requested = 2
        /\ store[FileOf(w)].status = "notified"

\* C10: a step in which a send raises (the task logs the failure) leaves the
\* store as it is, the record saved in that tick included, and puts the task
\* back to sleep for its next tick, or ends it when the tick had set notified.
C10_FailureContained ==
    [][\A w \in DOMAIN tasks :
          tasks'[w].failed # tasks[w].failed
              => /\ store' = store
                 /\ tasks'[w].saved = tasks[w].saved
                 /\ tasks'[w].pc =
                        IF tasks[w].payload[1].status = "notified"
                        THEN "done" ELSE "sleep"]_vars

\* C10 witness: a task whose first tick ended in a failed send has saved the
\* record of its second tick.
C10_Witness ==
    \E w \in DOMAIN tasks :
        /\ tasks[w].pc = "saved"
        /\ tasks[w].saved = 2
        /\ tasks[w].failed = 1
        /\ Len(store[FileOf(w)].history) = 3

----------------------------------------------------------------------------
(* Properties of track_flight_price *)

\* a step that is a call of handle_call_tool with the arguments args
Calls(args) == \E first \in IdPrefixes(minted) : HandleCallTool(args, first)

\* a step that is a call of handle_call_tool
AnyCall == \E args \in CreateArgs : Calls(args)

\* C4: a call never changes or replaces a record file that exists, and the
\* file name its resource link carries is the name of no existing file and
\* of no earlier link, whatever the arguments of the calls.
C4_FreshFileNames ==
    [][AnyCall
          => /\ \A f \in DOMAIN store :
                   f \in DOMAIN store' /\ store'[f] = store[f]
             /\ reply'.error = "none"
                   => /\ reply'.link.file_name \notin issued
                      /\ reply'.link.file_name \notin DOMAIN store
                      /\ reply'.link.file_name \in DOMAIN store']_vars

\* C4 witness: two calls with the same origin, destination and date whose
\* ids begin alike have returned two names, the second with the suffix -1.
C4_Witness ==
    \E f, g \in issued :
        /\ g = Stem(f) \o <<"-", "1">> \o JsonExt
        /\ store[f].origin = store[g].origin
        /\ store[f].destination = store[g].destination
        /\ store[f].departure_date = store[g].departure_date
        /\ Take(store[f].watch_id, IdPrefixLen) = Take(store[g].watch_id, IdPrefixLen)

\* the last segment of a URI string
UriBaseName(uri) == PathName(Tail(uri))

\* C6: a call that succeeds has persisted, under the file name of its link,
\* a record with the single history entry (sequence 0, the initial price),
\* status watching; the link's URI is a file:// URI whose base name contains
\* the slug of origin, destination and date, and the link carries the
\* record's watch_id, file_name and resource_name.
C6_CreatePersistsAndLinks ==
    [][\A args \in CreateArgs :
          (reply'.error = "none" /\ Calls(args))
              => LET link == reply'.link
                     rec  == store'[link.file_name]
                 IN  /\ link.file_name \in DOMAIN store'
                     /\ Len(rec.history) = 1
                     /\ rec.history[1].sequence = 0
                     /\ rec.history[1].price = args.initial_price.v
                     /\ rec.status = "watching"
                     /\ Head(link.uri) = "file://"
                     /\ Contains(UriBaseName(link.uri),
                                 Slugify(<<args.origin, args.destination,
                                           args.departure_date>>))
                     /\ (args.origin \in {<<"L">>, <<"l", "!">>}
                           /\ args.destination = <<"x">>
                           => StartsWith(UriBaseName(link.uri),
                                         <<"l", "-", "x", "-", "1", "-">>))
                     /\ link.watch_id = rec.watch_id
                     /\ link.file_name = rec.file_name
                     /\ link.resource_name = rec.resource_name
                     /\ link.status = rec.status]_vars

\* C6 witness: a second call, its price given as a numeric string, has
\* succeeded and its record holds that price.
C6_Witness ==
    /\ reply.op = "call_tool" /\ reply.error = "none"
    /\ Cardinality(DOMAIN store) = 2
    /\ store[reply.link.file_name].history[1].price = 70

\* C7: a call in which origin, destination, departure_date or initial_price
\* is missing raises, writes no record file and starts no simulator.
C7_MissingRejected ==
    [][\A args \in CreateArgs :
          (/\ \/ args.origin = None
              \/ args.destination = None
              \/ args.departure_date = None
              \/ args.initial_price = NoPrice
           /\ Calls(args))
              => /\ reply'.error # "none"
                 /\ store' = store
                 /\ tasks' = tasks]_vars

\* C7 witness: a call without a required argument has been rejected after
\* another call had persisted a record.
C7_Witness ==
    /\ reply.op = "call_tool" /\ reply.error = "missing"
    /\ DOMAIN store # {}

\* C8 as stated: a call whose initial_price or target_price cannot be
\* converted to a number raises, and has then written no record file and
\* started no simulator.
C8_MalformedPriceRejectedFirst ==
    [][\A args \in CreateArgs :
          (/\ (args.initial_price = BadPrice \/ args.target_price = BadPrice)
           /\ Calls(args))
              => /\ reply'.error # "none"
                 /\ store' = store
                 /\ tasks' = tasks]_vars

----------------------------------------------------------------------------
(* Properties of the URI codec *)

Decoded(watch_id) == [error |-> "none", watch_id |-> watch_id]

\* C5 as stated: for every record file of the store, decoding the URI that
\* encodes its path yields the watch_id the file embeds; so it is for the URI
\* of the link create returned and for every URI list returned.
C5_RoundTrip ==
    /\ \A f \in DOMAIN store :
           ParseWatchId(store, ResourceUri(StorePath(f)))
               = Decoded(store[f].watch_id)
    /\ reply.op = "list"
           => \A i \in 1..Len(reply.resources) :
                  \E f \in DOMAIN store :
                      ParseWatchId(store, reply.resources[i].uri)
                          = Decoded(store[f].watch_id)

----------------------------------------------------------------------------
(* Properties of the engine over a store that has faults *)

\* C11 as stated: no simulator is ended by a persistence error (its record
\* not located, its file not valid JSON, a write that fails); it goes on to
\* a later tick instead.
C11_PersistenceErrorContained ==
    \A w \in DOMAIN tasks : tasks[w].pc # "crashed"

----------------------------------------------------------------------------
(* Properties of read *)

\* C12: a read of the URI create returned for watch w, its record file being
\* in the store, succeeds and returns the record as the store holds it at
\* that moment: when k ticks of w have saved, the k + 1 history entries of
\* the k-th save and the status on disk, never fewer entries and never a
\* copy that a task holds in memory only.
C12_ReadIsCurrent ==
    [][\A w \in DOMAIN tasks :
          (/\ \E f \in DOMAIN store : store[f].watch_id = w
           /\ HandleReadResource(tasks[w].uri))
              => /\ reply'.error = "none"
                 /\ reply'.contents = <<store[FileOf(w)]>>
                 /\ Len(reply'.contents[1].history) = tasks[w].saved + 1
                 /\ reply'.contents[1].history[tasks[w].saved + 1].sequence
                        = tasks[w].saved]_vars

\* C12 witness: a read has returned a record with the entries of two ticks,
\* the second of which set notified.
C12_Witness ==
    /\ reply.op = "read" /\ reply.error = "none"
    /\ Len(reply.contents[1].history) = 3
    /\ reply.contents[1].status = "notified"

----------------------------------------------------------------------------
(* Properties of list *)

\* C14: after creates and external deletions, with simulators running or
\* not, a list call succeeds and returns as many summaries as the store has
\* record files, no two for one file, and every file is named by the URI of
\* one summary (the URI decodes to that file's name).
C14_OneSummaryPerFile ==
    [][HandleListResources
          => LET rs == reply'.resources IN
             /\ reply'.error = "none"
             /\ Len(rs) = Cardinality(DOMAIN store)
             /\ \A i, j \in 1..Len(rs) : rs[i].uri = rs[j].uri => i = j
             /\ \A f \in DOMAIN store :
                    \E i \in 1..Len(rs) :
                        /\ rs[i].uri = ResourceUri(StorePath(f))
                        /\ UriFileName(rs[i].uri) = f
                        /\ rs[i].name = store[f].resource_name]_vars

\* C14 witness: two watches were created, one record file was deleted, a
\* simulator has appended to the other, and list returned one summary.
C14_Witness ==
    /\ reply.op = "list" /\ reply.error = "none"
    /\ minted = 2
    /\ Len(reply.resources) = 1
    /\ \E f \in DOMAIN store : Len(store[f].history) > 1

----------------------------------------------------------------------------
(* Properties of the resource surface *)

\* a step that is a read or a subscribe of uri
Dereferences(uri) == HandleReadResource(uri) \/ HandleSubscribeResource(uri)

\* C13 as stated, for the URIs whose scheme the decoder accepts: a read or a
\* subscribe of a URI whose base name is the name of no file of the store
\* signals not-found (FileNotFoundError) and leaves the store as it was.
C13_NoMatchIsNotFound ==
    [][\A uri \in ProbeUris :
          (/\ UrlScheme(uri) \in {"", "file"}
           /\ UriFileName(uri) \notin DOMAIN store
           /\ Dereferences(uri))
              => /\ reply'.error = "FileNotFoundError"
                 /\ store' = store]_vars

\* C15 as stated: whatever bad files the store holds (text that does not
\* parse, or text that parses to something that is no object), a list call
\* completes and returns a summary for every record file.
C15_BadFilesAreSkipped ==
    [][HandleListResources
          => /\ reply'.error = "none"
             /\ \A f \in DOMAIN store :
                    IsDict(store[f])
                        => \E i \in 1..Len(reply'.resources) :
                               reply'.resources[i].uri
                                   = ResourceUri(StorePath(f))]_vars

\* C17: a read, a subscribe or a list leaves every file of the store with
\* the content it had, starts and stops no simulator and records nothing
\* else in the engine; the file_name and resource_name a read returns for a
\* record that lacks them are in the result only.
C17_ReadOnlyOperations ==
    [][\/ /\ store' = store
          /\ tasks' = tasks
          /\ minted' = minted
          /\ issued' = issued
          /\ (reply'.op = "read" /\ reply'.error = "none")
                 => /\ reply'.contents[1].file_name # <<>>
                    /\ reply'.contents[1].resource_name # <<>>
       \/ ~(HandleListResources \/ \E uri \in ProbeUris : Dereferences(uri))
      ]_vars

\* C17 witness: a read has returned, with both names filled in, a record
\* whose file lacks them still, while a simulator exists.
C17_Witness ==
    /\ reply.op = "read" /\ reply.error = "none"
    /\ reply.contents[1].file_name # <<>>
    /\ \E f \in DOMAIN store :
           /\ IsDict(store[f])
           /\ store[f].watch_id = reply.contents[1].watch_id
           /\ store[f].file_name = <<>>
           /\ reply.contents[1].file_name = f
    /\ DOMAIN tasks # {}

\* C18: a read or a subscribe of a URI whose scheme is neither file nor
\* empty raises the decode error (ValueError), whether or not its base name
\* is the name of a record file, and leaves the store as it was.
C18_ForeignSchemeRejected ==
    [][\A uri \in ProbeUris :
          (UrlScheme(uri) \notin {"", "file"} /\ Dereferences(uri))
              => /\ reply'.error = "ValueError"
                 /\ store' = store]_vars

\* C18 witness: a read or subscribe was rejected with the decode error while
\* every file of the store was a record with its id, so not for its file.
C18_Witness ==
    /\ reply.op \in {"read", "subscribe"}
    /\ reply.error = "ValueError"
    /\ DOMAIN store # {}
    /\ \A f \in DOMAIN store : IsDict(store[f]) /\ store[f].watch_id # NoId

----------------------------------------------------------------------------
(* Properties of the write *)

\* the record the task of watch w is about to write into file f
Written(w, f) == [tasks[w].payload[1] EXCEPT !.file_name = f, !.valid = TRUE]

\* C16 as stated: whenever a task writes its record, successfully or not,
\* every file of the store holds afterwards either all of what it held
\* before or all of the record written, never an empty or a partial text.
C16_WriteIsAtomic ==
    [][\A w \in DOMAIN tasks :
          (tasks[w].pc = "loaded" /\ (SimSave(w) \/ SimSaveFails(w)))
              => \A f \in DOMAIN store' :
                     \/ f \in DOMAIN store /\ store'[f] = store[f]
                     \/ store'[f] = Written(w, f)]_vars

----------------------------------------------------------------------------
(* Properties of create and of the tick's decision *)

\* C19: a create call that starts a simulator returns with the simulator
\* suspended in its first sleep, before any tick: the record persisted has
\* one history entry and status watching, the task has saved nothing and has
\* requested no notification; and a record gets a further entry only by the
\* save of a tick, a step of its own later than the call.
C19_CreateDoesNotWait ==
    [][/\ \A args \in EngineArgs :
              (HandleCallTool(args, IdChars[1]) /\ reply'.error = "none")
                  => LET w == reply'.link.watch_id
                         f == reply'.link.file_name
                     IN  /\ w \in DOMAIN tasks' /\ w \notin DOMAIN tasks
                         /\ tasks'[w].pc = "sleep"
                         /\ tasks'[w].saved = 0
                         /\ tasks'[w].requested = 0
                         /\ Len(store'[f].history) = 1
                         /\ store'[f].status = "watching"
       /\ \A f \in DOMAIN store :
              Len(store'[f].history) > Len(store[f].history)
                  => /\ \E w \in DOMAIN tasks : SimSave(w)
                     /\ reply' = reply]_vars

\* C19 witness: a create call has just returned, its simulator asleep and
\* its record with the one entry, while the simulator of an earlier watch
\* has saved a tick.
C19_Witness ==
    /\ reply.op = "call_tool" /\ reply.error = "none"
    /\ reply.link.watch_id \in DOMAIN tasks
    /\ tasks[reply.link.watch_id].pc = "sleep"
    /\ tasks[reply.link.watch_id].saved = 0
    /\ Len(store[reply.link.file_name].history) = 1
    /\ \E w \in DOMAIN tasks : tasks[w].saved > 0

\* the price of the last history entry of a record
LastPrice(rec) == rec.history[Len(rec.history)].price

\* the record has a target and its last price is at or below it
TargetMet(rec) ==
    rec.target_price.t # "none" /\ LastPrice(rec) <= rec.target_price.v

\* C20: the record a tick saves has status notified if a target_price is
\* configured and the price just appended is at most the target, watching
\* otherwise; and at every moment a record whose status is notified has a
\* target and a last price at most that target, so that a watch without a
\* target is never notified.
C20_Decision ==
    [][\A w \in DOMAIN tasks :
          SimSave(w)
              => \E f \in DOMAIN store' :
                    /\ store'[f] = Written(w, f)
                    /\ store'[f].status
                          = IF TargetMet(store'[f]) THEN "notified"
                            ELSE "watching"]_vars

C20_NotifiedMeansTargetMet ==
    \A f \in DOMAIN store :
        store[f].status = "notified" => TargetMet(store[f])

C20_NotifiedIffTargetMet == []C20_NotifiedMeansTargetMet /\ C20_Decision

\* C20 witness: one record was notified by a tick at a price equal to its
\* target, and a tick has brought a record without target to the lowest
\* price and left it watching.
C20_Witness ==
    /\ \E f \in DOMAIN store :
           /\ store[f].status = "notified"
           /\ Len(store[f].history) = 2
           /\ LastPrice(store[f]) = store[f].target_price.v
    /\ \E f \in DOMAIN store :
           /\ store[f].target_price.t = "none"
           /\ Len(store[f].history) = 2
           /\ LastPrice(store[f]) = MinPrice
           /\ store[f].status = "watching"

----------------------------------------------------------------------------
(* Properties of the simulator's use of the record *)

\* C21 as stated: each tick decides from the record as it loads it at that
\* tick: the status the tick gives the record is notified exactly when the
\* target_price stored in the record file at the load is set and the new
\* price is at or below it, whatever the target was when the watch was
\* created.
C21_DecisionUsesStoredTarget ==
    [][\A w \in DOMAIN tasks :
          (tasks[w].pc = "sleep" /\ tasks'[w].pc = "loaded")
              => \E f \in LocateWatchFile(store, w) :
                    LET rec == tasks'[w].payload[1] IN
                    /\ rec.target_price = store[f].target_price
                    /\ rec.status = IF TargetMet(rec) THEN "notified"
                                    ELSE "watching"]_vars

\* the fields of a record that identify the watch and its request
Identity(rec) ==
    [k \in {"watch_id", "origin", "destination", "departure_date",
            "target_price", "context_file", "file_name", "resource_name"}
        |-> rec[k]]

\* C22: the save of a tick writes the record file of its own watch and no
\* other file; in that record the watch_id, origin, destination,
\* departure_date, target_price, context_file, file_name and resource_name
\* stay as they were, and the history after the save is the history before
\* it with exactly one entry appended.
C22_TickFrame ==
    [][\A w \in DOMAIN tasks :
          (tasks[w].pc = "loaded" /\ SimSave(w))
              => LET f == FileOf(w) IN
                 /\ DOMAIN store' = DOMAIN store
                 /\ \A g \in DOMAIN store \ {f} : store'[g] = store[g]
                 /\ Identity(store'[f]) = Identity(store[f])
                 /\ Len(store'[f].history) = Len(store[f].history) + 1
                 /\ SubSeq(store'[f].history, 1, Len(store[f].history))
                        = store[f].history]_vars

\* C22 witness: a tick has just saved the third entry of a record and set
\* its status and its summary, next to the record of another watch.
C22_Witness ==
    \E w \in DOMAIN tasks :
        /\ tasks[w].pc = "saved"
        /\ Len(store[FileOf(w)].history) = 3
        /\ store[FileOf(w)].status = "notified"
        /\ store[FileOf(w)].summary # <<>>
        /\ Cardinality(DOMAIN store) = 2

\* C23: no cross-watch writes: a step of the simulator of watch A, whatever
\* creates and steps of other simulators precede or follow it, leaves the
\* record file of every other watch B in the store with the content it had.
C23_NoCrossWatchWrites ==
    [][\A w \in DOMAIN tasks :
          tasks'[w] # tasks[w]
              => \A g \in DOMAIN store :
                     store[g].watch_id # w
                         => g \in DOMAIN store' /\ store'[g] = store[g]]_vars

\* C23 witness: the simulators of two watches have each saved a tick, and
\* the two records hold different prices.
C23_Witness ==
    \E a, b \in DOMAIN tasks :
        /\ a # b
        /\ tasks[a].saved = 1 /\ tasks[b].saved = 1
        /\ Len(store[FileOf(a)].history) = 2
        /\ Len(store[FileOf(b)].history) = 2
        /\ LastPrice(store[FileOf(a)]) # LastPrice(store[FileOf(b)])

----------------------------------------------------------------------------
(* Properties of the simulators as tasks *)

\* the records of the watches that have no simulator
Unwatched == {f \in DOMAIN store : store[f].watch_id \notin DOMAIN tasks}

C24_StartedByCreateOnly ==
    [][/\ \A args \in ChannelArgs :
              HandleCallTool(args, IdChars[1])
                  => IF args.session /\ reply'.error = "none"
                     THEN LET w == reply'.link.watch_id IN
                          /\ w \notin DOMAIN tasks
                          /\ DOMAIN tasks' = DOMAIN tasks \cup {w}
                          /\ tasks'[w].pc = "sleep"
                          /\ \A v \in DOMAIN tasks : tasks'[v] = tasks[v]
                     ELSE tasks' = tasks
       /\ \/ DOMAIN tasks' = DOMAIN tasks
          \/ \E args \in ChannelArgs : HandleCallTool(args, IdChars[1])]_vars

C24_NoSimulatorNoTick ==
    /\ \A f \in Unwatched :
           Len(store[f].history) = 1 /\ store[f].status = "watching"
    /\ \A w \in DOMAIN tasks :
           Cardinality({f \in DOMAIN store : store[f].watch_id = w}) = 1

\* C24: a create that returns its link in a live session starts one
\* simulator, for the new watch_id, which had none, and leaves the other
\* simulators as they are; a create without a session, and a create that
\* fails, start none; no step other than a create starts a simulator; and
\* the record of a watch without simulator stays at one history entry and
\* status watching.
C24_OneSimulatorPerWatch ==
    []C24_NoSimulatorNoTick /\ C24_StartedByCreateOnly

\* C24 witness: a watch created in a session has been ticked by its
\* simulator, a watch created without one has its first record, and a
\* client has just read a record.
C24_Witness ==
    /\ \E w \in DOMAIN tasks : tasks[w].saved > 0
    /\ Unwatched # {}
    /\ reply.op = "read" /\ reply.error = "none"

\* the task of watch w is in a tick, between the start of its load and the
\* end of its notify step
InTick(w) == tasks[w].pc \in {"loaded", "saved", "sending", "progress"}

\* C25 as stated: the simulator is suspended only in its sleep: while the
\* task of a watch is between the start of a tick's load and the end of that
\* tick's notify step, every step the process takes (a handler call or a
\* step of a task) is a step of that task.
C25_TickRunsToCompletion ==
    [][\A w \in DOMAIN tasks :
          (InTick(w) /\ (tasks' # tasks \/ reply' # reply))
              => tasks'[w] # tasks[w]]_vars

----------------------------------------------------------------------------
(* Properties of the prices *)

\* q is a price a tick may append after the price p
Follows(p, q) ==
    \E d \in DeltaMin..DeltaMax :
        \/ p + d >= MinPrice /\ q = p + d
        \/ p + d < MinPrice /\ q = MinPrice

C26_EntriesFollow ==
    \A f \in DOMAIN store :
        \A i \in 2..Len(store[f].history) :
            LET p == store[f].history[i - 1].price
                q == store[f].history[i].price
            IN  /\ Follows(p, q)
                /\ q >= MinPrice
                /\ q - p > DeltaMax => p < MinPrice - DeltaMax

C26_TickAppendsNext ==
    [][\A w \in DOMAIN tasks :
          (tasks[w].pc = "loaded" /\ SimSave(w))
              => LET f == FileOf(w) IN
                 /\ Len(store'[f].history) = Len(store[f].history) + 1
                 /\ Follows(LastPrice(store[f]), LastPrice(store'[f]))]_vars

\* C26: the price a tick appends is max(p + d, 50) for the last price p of
\* the history and an integer d from -40 to 20; so every history entry after
\* the first has a price of at least 50, and an entry is more than 20 above
\* the entry before it only where that one was below 30.
C26_PriceWalk == []C26_EntriesFollow /\ C26_TickAppendsNext

\* C26 witness: one record went from 10 up to the lowest price 50, and one
\* went from 95 down by 40 to 55, above the lowest price.
C26_Witness ==
    /\ \E f \in DOMAIN store :
           /\ Len(store[f].history) = 2
           /\ store[f].history[1].price = 10
           /\ store[f].history[2].price = MinPrice
    /\ \E f \in DOMAIN store :
           /\ Len(store[f].history) = 2
           /\ store[f].history[1].price = 95
           /\ store[f].history[2].price = 95 + DeltaMin

\* the watch ids create mints
WatchIds == {NewWatchId(IdChars[1], n) : n \in 0..(MaxWatches - 1)}

C27_EventuallyNotified ==
    \A w \in WatchIds :
        (w \in DOMAIN tasks)
            ~> (/\ w \in DOMAIN tasks
                /\ tasks[w].pc = "done"
                /\ store[FileOf(w)].status = "notified")

C27_FirstTickNotifies ==
    \A w \in DOMAIN tasks :
        LET rec == store[FileOf(w)] IN
        (rec.target_price.v >= rec.history[1].price + DeltaMax
            /\ tasks[w].saved >= 1)
            => /\ tasks[w].saved = 1
               /\ Len(rec.history) = 2
               /\ rec.status = "notified"

\* C27: a watch created in a session with a target_price of at least 50
\* has, under a fair random source and a fair event loop and without
\* external writes, eventually the status notified and a simulator that has
\* ended; and with a target at or above the initial price plus 20 the first
\* tick already notifies.
C27_ReachesTarget == C27_EventuallyNotified /\ []C27_FirstTickNotifies

\* C27 witness: one simulator has ended after more than MaxTicks ticks with
\* its record notified, and one has ended after its first tick.
C27_Witness ==
    /\ \E w \in DOMAIN tasks :
           /\ tasks[w].pc = "done" /\ tasks[w].saved > MaxTicks
           /\ store[FileOf(w)].status = "notified"
    /\ \E w \in DOMAIN tasks :
           /\ tasks[w].pc = "done" /\ tasks[w].saved = 1
           /\ store[FileOf(w)].status = "notified"

\* the record has a target and it is at least n
TargetAtLeast(rec, n) == rec.target_price.t = "num" /\ rec.target_price.v >= n

\* the tick that starts on the record rec of watch w with this step sets
\* the status notified
TickNotifies(w) ==
    tasks'[w].pc = "loaded" /\ tasks'[w].payload[1].status = "notified"

\* a record whose target is below the lowest price is never notified, and
\* its simulator does not end while the record is watching
C28_LowTargetNeverMet ==
    \A w \in DOMAIN tasks :
        LET rec == store[FileOf(w)] IN
        (rec.target_price.t = "num" /\ rec.target_price.v < MinPrice)
            => /\ rec.status # "notified"
               /\ tasks[w].pc = "done" => rec.status = "cancelled"

\* C28 as stated: a tick that starts on a watching record whose target_price
\* is at least the last history price plus 20 sets the record to notified,
\* whatever the delta; and a record whose target_price is below 50 is never
\* set to notified, its simulator running until the record is cancelled.
C28_AsStated ==
    /\ []C28_LowTargetNeverMet
    /\ [][\A w \in DOMAIN tasks :
             (/\ tasks[w].pc = "sleep" /\ tasks'[w].pc # "sleep"
              /\ store[FileOf(w)].status = "watching"
              /\ TargetAtLeast(store[FileOf(w)],
                               LastPrice(store[FileOf(w)]) + DeltaMax))
                 => TickNotifies(w)]_vars

\* the target the simulator of watch w was started with is at least n
StartedWithAtLeast(w, n) ==
    tasks[w].target_price.t = "num" /\ tasks[w].target_price.v >= n

C28_LowStartTargetNeverMet ==
    \A w \in DOMAIN tasks :
        (tasks[w].target_price.t = "num" /\ tasks[w].target_price.v < MinPrice)
            => /\ store[FileOf(w)].status # "notified"
               /\ tasks[w].pc = "done"
                      => store[FileOf(w)].status = "cancelled"

\* C28 as amended: a tick that starts on a watching record sets it to
\* notified, whatever the delta, if the target_price the watch was created
\* with is at least the last history price plus 20 and at least 50; and a
\* record created with a target_price below 50 is never set to notified, its
\* simulator not ending by itself.
C28_ReachableTargetMet ==
    /\ []C28_LowStartTargetNeverMet
    /\ [][\A w \in DOMAIN tasks :
             (/\ tasks[w].pc = "sleep" /\ tasks'[w].pc # "sleep"
              /\ store[FileOf(w)].status = "watching"
              /\ StartedWithAtLeast(w, LastPrice(store[FileOf(w)]) + DeltaMax)
              /\ StartedWithAtLeast(w, MinPrice))
                 => TickNotifies(w)]_vars

\* C28 witness: the first tick of a watch with initial price 30 and target
\* 50 has notified it at the price 50, and the first tick of a watch with
\* initial price 10 and target 30 has left it watching at the price 50.
C28_Witness ==
    /\ \E f \in DOMAIN store :
           /\ store[f].history[1].price = MinPrice - DeltaMax
           /\ store[f].target_price = Num(MinPrice)
           /\ Len(store[f].history) = 2
           /\ store[f].status = "notified"
    /\ \E f \in DOMAIN store :
           /\ store[f].history[1].price = 10
           /\ store[f].target_price = Num(30)
           /\ Len(store[f].history) = 2
           /\ store[f].status = "watching"

----------------------------------------------------------------------------
(* Properties of the record store over files that are no records *)

\* the record files that embed the id of watch w
Embedding(w) ==
    {f \in DOMAIN store : IsDict(store[f]) /\ store[f].watch_id = w}

\* C29 as stated: locate(id) returns a file that embeds the id whenever the
\* store holds one, however many other files are unparsable or malformed,
\* and fails only when no file matches: the load of a tick, which starts
\* with locate(id), does not fail while a record file embeds the id.
C29_LocateIsTolerant ==
    [][\A w \in DOMAIN tasks :
          (tasks[w].pc = "sleep" /\ tasks'[w].pc = "crashed")
              => Embedding(w) = {}]_vars

\* C30 as stated: while the record file of a watch exists and holds no valid
\* JSON, load(id) and read(uri) for that watch fail, and not with the error
\* that reports a missing record.
C30_CorruptIsNotMissing ==
    \A w \in DOMAIN tasks : \A f \in DOMAIN store :
        (tasks[w].uri = ResourceUri(StorePath(f)) /\ store[f] = Unparsable)
            => \A r \in Load(store, w) \cup Resolve(store, tasks[w].uri) :
                   r.error \notin {"none", "FileNotFoundError"}

----------------------------------------------------------------------------
(* Properties of the URI codec *)

\* the components of a path, between its slashes
RECURSIVE Segments(_)
Segments(path) ==
    IF path = <<>> THEN <<>>
    ELSE LET i == FindAny(path, {"/"}, 1) IN
         <<Take(path, i - 1)>>
             \o (IF i > Len(path) THEN <<>> ELSE Segments(Drop(path, i)))

\* the directories the file system walks through for these components
RECURSIVE Walk(_, _)
Walk(segments, at) ==
    IF segments = <<>> THEN at
    ELSE LET seg == Head(segments) IN
         Walk(Tail(segments),
              IF seg \in {<<>>, <<".">>} THEN at
              ELSE IF seg = <<".", ".">>
                   THEN (IF at = <<>> THEN at ELSE Take(at, Len(at) - 1))
                   ELSE Append(at, seg))

\* the path names the store directory or something in it
WithinStore(path) ==
    LET dir == Walk(Segments(STORE_DIR), <<>>)
        at  == Walk(Segments(path), <<>>)
    IN  Len(at) >= Len(dir) /\ Take(at, Len(dir)) = dir

C31_SameBaseNameSameResult ==
    \A n \in BaseNames : \A d1, d2 \in DirectoryPortions :
        ParseWatchId(store, d1 \o n) = ParseWatchId(store, d2 \o n)

\* C31 as stated: two URIs of supported schemes with the same base name
\* decode to the same result whatever stands before the base name, and the
\* path a read or a subscribe of such a URI looks up and reads lies in the
\* store directory.
C31_DecodingIsConfined ==
    /\ []C31_SameBaseNameSameResult
    /\ [][\A uri \in DecodeUris :
             Dereferences(uri)
                 => WithinStore(StorePath(UriFileName(uri)))]_vars

----------------------------------------------------------------------------
(* Properties of the store under renames *)

\* the files of the store that embed watch_id
Embedders(watch_id) ==
    {f \in DOMAIN store : IsDict(store[f]) /\ store[f].watch_id = watch_id}

C33_OneFilePerWatch ==
    \A w \in DOMAIN tasks : Cardinality(Embedders(w)) <= 1

\* C33 as stated: a step of a simulator adds no file to the store and
\* removes none, what it writes it writes to a file that embedded its
\* watch_id before the step, also after a collaborator renamed the record
\* file; so at every moment at most one file of the store embeds a given
\* watch_id.
C33_OnlyCreateAddsFiles ==
    /\ []C33_OneFilePerWatch
    /\ [][\A w \in DOMAIN tasks :
             tasks'[w] # tasks[w]
                 => /\ DOMAIN store' = DOMAIN store
                    /\ \A f \in DOMAIN store :
                           store'[f] # store[f] => f \in Embedders(w)]_vars

----------------------------------------------------------------------------
(* Properties of the resource surface over copied and stripped records *)

\* C32 as stated: a read of a URI that decodes successfully returns the
\* record held by the store file with the URI's base name, also when another
\* file embeds the same watch_id, when the legacy file of that watch_id
\* exists, and when the file with that base name has no watch_id.
C32_ReadReturnsDesignatedFile ==
    [][\A uri \in FileUris :
          HandleReadResource(uri) /\ ParseWatchId(store, uri).error = "none"
              => /\ reply'.error = "none"
                 /\ reply'.contents
                        = <<LoadWatch(store, UriFileName(uri))>>]_vars

\* C34 as stated: once a record file the allocator named has lost its
\* watch_id, decoding its URI yields the id token the allocator placed after
\* the slug, with or without a collision suffix after it; and decoding the
\* URI of a file that has no watch_id and whose stem ends in a hyphen is a
\* decode error.
C34_FallbackSkipsCollisionSuffix ==
    /\ [][\A f \in issued \cap DOMAIN store :
             ExternalStripId(f)
                 => ParseWatchId(store', ResourceUri(StorePath(f)))
                        = Decoded(Take(store[f].watch_id, IdPrefixLen))]_vars
    /\ [](\A f \in DOMAIN store :
             /\ IsDict(store[f]) /\ store[f].watch_id = NoId
             /\ Stem(f)[Len(Stem(f))] = "-"
             => ParseWatchId(store, ResourceUri(StorePath(f)))
                    = Raised("ValueError"))

----------------------------------------------------------------------------
(* Properties of the progress updates *)

\* the simulator of w leaves its call of send_resource_updated
LeavesSend(w) == tasks[w].pc = "sending" /\ tasks'[w].pc # "sending"

\* C35 as stated: when the change notification of a tick is over, whether it
\* was delivered or failed, the simulator of a watch that has a progress
\* token emits a progress update, whose count is the number of ticks the
\* simulator has performed so far, and the simulator of a watch without
\* token emits none.
C35_ProgressCountsTicks ==
    [][\A w \in DOMAIN tasks :
          LeavesSend(w)
              => IF tasks[w].progress_token
                 THEN /\ tasks'[w].pc = "progress"
                      /\ ProgressCount(tasks'[w]) = tasks'[w].saved
                 ELSE tasks'[w].pc # "progress"]_vars

----------------------------------------------------------------------------
(* Properties of the research servers *)

\* C36 as stated: whatever the tool name and the arguments, None included,
\* a call of either server's handle_call_tool either runs the research tool,
\* whose result is what the call returns, or raises ValueError for the name
\* it does not know; no call ends in another way.
C36_EveryCallRouted ==
    /\ [](research.pc = "returned" => research.outcome = "result")
    /\ [][research.pc = "idle" /\ research'.pc # "idle"
              => \/ research'.pc \in {"todo", "loop"}
                 \/ research'.pc = "raised"
                    /\ research'.outcome = "ValueError"]_vars

\* a call of internet_search after the session's first
LaterSearch ==
    research'.searches = research.searches + 1 /\ research.searches >= 1

\* C37 as stated: in one session the search backend is contacted once at
\* most; a call of internet_search after the first leaves the backend alone,
\* finds the cached result its assertion requires, and returns it, also
\* when the backend raised at the first call.
C37_SearchOnceThenCached ==
    /\ [](research.backend_calls <= 1)
    /\ [][LaterSearch
              => /\ research'.backend_calls = research.backend_calls
                 /\ research.last_search_payload # NoValue
                 /\ research'.search_reply = research.last_search_payload]_vars

\* an interrupt has been handled and its resume command is pending
Answered ==
    research.pc = "loop" /\ research.pending[1].type = "resume"

\* the response to the approval request, given the client's answer e
C38_Response(response, e) ==
    /\ response.type = "accept"
           => \/ e.raised
              \/ e.action = "accept"
                 /\ e.content.decision \in {NoValue, "accept"}
    /\ ~e.raised /\ e.action \in {"decline", "cancel"}
           => response.type # "accept"
    /\ ~e.raised /\ e.content.decision = "decline"
           => /\ response.type = "response"
              /\ response.message
                     = (IF e.content.notes = "" THEN DefaultDecline
                        ELSE e.content.notes)
    /\ ~e.raised /\ e.content.decision = "edit"
           => /\ response.type = "edit"
              /\ response.action
                     = (IF e.content.new_action = NoValue THEN ToolName
                        ELSE e.content.new_action)
              /\ response.args
                     = (IF e.content.new_args = NoValue THEN ToolArgs
                        ELSE e.content.new_args)

\* C38 as stated: an approval request is answered with accept only when the
\* user's decision is accept, when there is no request context or when the
\* elicitation fails; a result whose action is decline or cancel or whose
\* decision is decline is never answered with accept; a decision of edit is
\* answered with an edit that keeps the tool name and the arguments the
\* user did not override, and a decline with the user's notes or the
\* default message.
C38_AcceptOnlyOnApproval ==
    Answered
        => /\ Len(research.pending[1].responses) = 1
           /\ IF research.elicited = <<>>
              THEN research.pending[1].responses[1] = Accept
              ELSE C38_Response(research.pending[1].responses[1],
                                research.elicited[1])

\* the text of the last AI message the loop has seen, "" before the first
LastAiText ==
    IF research.seen = <<>> THEN <<>> ELSE ParseMessageText(research.seen[1])

C39_Answers ==
    research.server = "hitl"
        => /\ research.streams \subseteq {research.thread}
           /\ research.interrupts
                  = research.resumes + (IF Answered THEN 1 ELSE 0)
           /\ research.pc = "stream" => research.pending = <<>>
           /\ research.pc = "returned" /\ research.outcome = "result"
                  => /\ research.pending = <<>>
                     /\ research.result = LastAiText

C39_Steps ==
    /\ research'.chunks # research.chunks
           => /\ research.pending = <<>>
              /\ research'.interrupts # research.interrupts
                     => /\ research'.pc = "loop"
                        /\ research'.pending # <<>>
                        /\ research'.pending[1].type = "resume"
    /\ research'.resumes # research.resumes
           => /\ Answered
              /\ research'.resumes = research.resumes + 1
              /\ research'.pc = "stream"
              /\ research.thread \in research'.streams
    /\ research.server = "hitl" /\ research.pc # "returned"
       /\ research'.pc = "returned"
           => /\ research.pc = "stream"
              /\ research.interrupts = research.resumes
              /\ research'.chunks = research.chunks
    /\ research.pc = "stream" /\ research'.pc # "stream"
       /\ research'.chunks = research.chunks
           => research'.pc = "returned"

\* C39: every interrupt a stream reports is answered by one resume command,
\* sent on the session's thread before the loop takes another chunk, and
\* the loop is left by the return exactly when a stream ends that reported
\* no interrupt; what is returned is the text of the last AI message seen.
C39_InterruptThenResume ==
    /\ []C39_Answers
    /\ [][C39_Steps]_vars
    /\ (Answered ~> (research.pc = "stream"
                     /\ research.resumes = research.interrupts))

\* C39 witness: the session has returned the text of an AI message after
\* two interrupts and the two resume commands that answered them.
C39_Witness ==
    /\ research.pc = "returned"
    /\ research.interrupts = 2 /\ research.resumes = 2
    /\ research.result = <<"r2", "\n", "r3">>

====
